---- MODULE Spec2Model ----
(***************************************************************************)
(* Model of the forensic communication pipeline of src/analysis.py:        *)
(* normalisation of raw rows (load_sms_data, load_call_data,               *)
(* load_email_data, extract_phone_number, parse_timestamp), contact        *)
(* aggregation (extract_contacts), classification                          *)
(* (categorize_event_with_reasons), timeline fusion (create_timeline) and  *)
(* risk scoring (detect_suspicious_patterns_with_details, analyze_data).   *)
(*                                                                         *)
(* Text is modelled by TLA+ strings, one character per position, so every  *)
(* substring test, regular-expression match and case conversion of the     *)
(* source is computed character by character.                              *)
(***************************************************************************)
EXTENDS Integers, Sequences, FiniteSets, TLC

VARIABLES
    pc,             \* position of the running entry point
    text,           \* extract_phone_number: the argument
    number,         \* extract_phone_number: the returned value (<<>> before the call)
    record,         \* categorize_event_with_reasons: the record argument
    source_type,    \* categorize_event_with_reasons: the source kind argument
    category,       \* categorize_event_with_reasons: the returned tag (<<>> before the call)
    reasons,        \* categorize_event_with_reasons: the returned reasons
    csv_file,       \* load_*_data: the rows csv.DictReader reads from the file
    sms_data,       \* main: the normalised SMS records
    call_data,      \* main: the normalised call records
    email_data,     \* main: the normalised email records
    user_phone,     \* main: the inferred subject address (<<>> is None)
    timeline,       \* main: the fused timeline
    contact_counts, \* extract_contacts: Counter of the contacts
    contact_details,\* extract_contacts: per-contact statistics
    flags,          \* detect_suspicious_patterns_with_details: the returned flags
    risk_score,     \* analyze_data / export_forensic_report: the simple score
    risk_factors,   \* suspicious_communications_analysis: the scored factors
    final_risk_score, \* suspicious_communications_analysis: the weighted score,
                    \* in thousandths (<<>> when it is not computed)
    ts_text,        \* parse_timestamp: the argument timestamp_str
    ts_value        \* parse_timestamp: the returned value (<<>> is None)

phoneVars == <<text, number>>
classifyVars == <<record, source_type, category, reasons>>
dataVars == <<csv_file, sms_data, call_data, email_data>>
contactVars == <<contact_counts, contact_details>>
scoreVars == <<flags, risk_score, risk_factors, final_risk_score>>
timestampVars == <<ts_text, ts_value>>
vars == <<pc, phoneVars, classifyVars, dataVars, user_phone, timeline, contactVars,
          scoreVars, timestampVars>>

\* The variables of an entry point that is not running.
PhoneIdle == text = "" /\ number = <<>>
TimestampIdle == ts_text = <<>> /\ ts_value = <<>>
ClassifyIdle == record = <<>> /\ source_type = "" /\ category = <<>> /\ reasons = <<>>
DataIdle == csv_file = <<>> /\ sms_data = <<>> /\ call_data = <<>> /\ email_data = <<>>
PipelineIdle ==
    /\ user_phone = <<>> /\ timeline = <<>>
    /\ contact_counts = <<>> /\ contact_details = <<>>
    /\ flags = <<>> /\ risk_score = <<>>
    /\ risk_factors = <<>> /\ final_risk_score = <<>>

(***************************************************************************)
(* Python values: None and optional values.                                *)
(***************************************************************************)
None == <<>>
Some(v) == <<v>>

(***************************************************************************)
(* Python str operations.                                                  *)
(***************************************************************************)
Digit == {"0", "1", "2", "3", "4", "5", "6", "7", "8", "9"}
Whitespace == {" ", "\t", "\n", "\r", "\f"}
UpperChars == "ABCDEFGHIJKLMNOPQRSTUVWXYZ"
LowerChars == "abcdefghijklmnopqrstuvwxyz"

CharAt(s, i) == SubSeq(s, i, i)

\* str.__contains__ : k in s
Contains(s, k) ==
    \E i \in 1..(Len(s) - Len(k) + 1) : SubSeq(s, i, i + Len(k) - 1) = k

\* str.startswith
StartsWith(s, p) == Len(p) <= Len(s) /\ SubSeq(s, 1, Len(p)) = p

\* The lower-case letter of each upper-case letter, and the converse.
LowerOf ==
    [c \in {CharAt(UpperChars, i) : i \in 1..26} |->
        CharAt(LowerChars, CHOOSE i \in 1..26 : CharAt(UpperChars, i) = c)]
UpperOf ==
    [c \in {CharAt(LowerChars, i) : i \in 1..26} |->
        CharAt(UpperChars, CHOOSE i \in 1..26 : CharAt(LowerChars, i) = c)]

LowerChar(c) == IF c \in DOMAIN LowerOf THEN LowerOf[c] ELSE c

UpperChar(c) == IF c \in DOMAIN UpperOf THEN UpperOf[c] ELSE c

\* str.lower
RECURSIVE StrLower(_)
StrLower(s) ==
    IF s = "" THEN "" ELSE LowerChar(CharAt(s, 1)) \o StrLower(SubSeq(s, 2, Len(s)))

\* str.upper
RECURSIVE StrUpper(_)
StrUpper(s) ==
    IF s = "" THEN "" ELSE UpperChar(CharAt(s, 1)) \o StrUpper(SubSeq(s, 2, Len(s)))

\* str.strip
RECURSIVE LStrip(_)
LStrip(s) ==
    IF s # "" /\ CharAt(s, 1) \in Whitespace THEN LStrip(SubSeq(s, 2, Len(s))) ELSE s

RECURSIVE RStrip(_)
RStrip(s) ==
    IF s # "" /\ CharAt(s, Len(s)) \in Whitespace
    THEN RStrip(SubSeq(s, 1, Len(s) - 1)) ELSE s

Strip(s) == RStrip(LStrip(s))

\* re.sub(r'[^...]', '', s) : keep the characters of the class
RECURSIVE KeepChars(_, _)
KeepChars(s, cls) ==
    IF s = "" THEN ""
    ELSE (IF CharAt(s, 1) \in cls THEN CharAt(s, 1) ELSE "")
         \o KeepChars(SubSeq(s, 2, Len(s)), cls)

(***************************************************************************)
(* Regular expressions (module re).  A pattern is a sequence of elements,  *)
(* an element a sequence of alternatives in priority order, an alternative *)
(* a sequence of character classes.  A greedy quantifier is the list of    *)
(* its repetitions, longest first, which is the order in which the         *)
(* backtracking matcher tries them.                                        *)
(***************************************************************************)
\* cls{lo,hi}
Rep(cls, lo, hi) == [i \in 1..(hi - lo + 1) |-> [j \in 1..(hi - i + 1) |-> cls]]
\* cls?
Opt(cls) == Rep(cls, 0, 1)
\* cls (exactly one)
One(cls) == Rep(cls, 1, 1)

MatchAlt(s, pos, alt) ==
    /\ pos + Len(alt) - 1 <= Len(s)
    /\ \A j \in 1..Len(alt) : CharAt(s, pos + j - 1) \in alt[j]

NoMatch == [ok |-> FALSE, lens |-> <<>>]

\* The match of pat[k..] at position pos: the lengths taken by each element.
RECURSIVE MatchFrom(_, _, _, _)
RECURSIVE TryAlts(_, _, _, _, _)
MatchFrom(s, pos, pat, k) ==
    IF k > Len(pat) THEN [ok |-> TRUE, lens |-> <<>>]
    ELSE TryAlts(s, pos, pat, k, 1)

TryAlts(s, pos, pat, k, a) ==
    IF a > Len(pat[k]) THEN NoMatch
    ELSE IF MatchAlt(s, pos, pat[k][a])
         THEN LET r == MatchFrom(s, pos + Len(pat[k][a]), pat, k + 1)
              IN  IF r.ok THEN [ok |-> TRUE, lens |-> <<Len(pat[k][a])>> \o r.lens]
                  ELSE TryAlts(s, pos, pat, k, a + 1)
         ELSE TryAlts(s, pos, pat, k, a + 1)

SeqSum(q) == LET RECURSIVE S(_)
                 S(i) == IF i > Len(q) THEN 0 ELSE q[i] + S(i + 1)
             IN  S(1)

\* re.search(pat, s): the leftmost match; start = 0 when there is none.
ReSearch(pat, s) ==
    LET starts == {i \in 1..(Len(s) + 1) : MatchFrom(s, i, pat, 1).ok}
    IN  IF starts = {} THEN [start |-> 0, lens |-> <<>>]
        ELSE LET i == CHOOSE x \in starts : \A y \in starts : x <= y
             IN  [start |-> i, lens |-> MatchFrom(s, i, pat, 1).lens]

\* match.group()
MatchGroup0(s, m) == SubSeq(s, m.start, m.start + SeqSum(m.lens) - 1)

(***************************************************************************)
(* extract_phone_number                                                    *)
(***************************************************************************)
PhoneSep == {"-", "."} \cup Whitespace

\* The four patterns of the cascade, in order.
PhonePatterns == <<
    \* \+?\d{1,3}[-.\s]?\(?\d{3}\)?[-.\s]?\d{3}[-.\s]?\d{4}
    << Opt({"+"}), Rep(Digit, 1, 3), Opt(PhoneSep), Opt({"("}), Rep(Digit, 3, 3),
       Opt({")"}), Opt(PhoneSep), Rep(Digit, 3, 3), Opt(PhoneSep), Rep(Digit, 4, 4) >>,
    \* \(?\d{3}\)?[-.\s]?\d{3}[-.\s]?\d{4}
    << Opt({"("}), Rep(Digit, 3, 3), Opt({")"}), Opt(PhoneSep), Rep(Digit, 3, 3),
       Opt(PhoneSep), Rep(Digit, 4, 4) >>,
    \* \d{10,15}
    << Rep(Digit, 10, 15) >>,
    \* \d{3}[-.\s]?\d{3}[-.\s]?\d{4}
    << Rep(Digit, 3, 3), Opt(PhoneSep), Rep(Digit, 3, 3), Opt(PhoneSep),
       Rep(Digit, 4, 4) >> >>

\* The numbers np.random can synthesise, "+1" and seven digits; the model
\* draws from the ends of the two ranges.
SynthPhones == {"+1" \o a \o b : a \in {"200", "998"}, b \in {"1000", "9998"}}

\* FormatPhoneNumber without the country code of the ten-digit branch.
FormatPhoneNumber_NoCountryCode(num) ==
    IF StartsWith(num, "+") THEN num ELSE "+" \o num

\* FormatPhoneNumber with the country code put before every number.
FormatPhoneNumber_AlwaysCountryCode(num) == "+1" \o KeepChars(num, Digit)

\* The branch taken on the cleaned text of the first match.
FormatPhoneNumber(num) ==
    IF Len(num) = 10 THEN "+1" \o num
    ELSE IF Len(num) = 11 /\ StartsWith(num, "1") THEN "+" \o num
    ELSE IF StartsWith(num, "+") THEN num
    ELSE "+" \o num

\* The loop over the patterns from pattern p on: the first pattern that
\* matches and its match, pattern 0 when none does.
RECURSIVE PhoneCascade(_, _)
PhoneCascade(t, p) ==
    IF p > Len(PhonePatterns) THEN [pattern |-> 0, match |-> [start |-> 0, lens |-> <<>>]]
    ELSE LET m == ReSearch(PhonePatterns[p], t)
         IN  IF m.start # 0 THEN [pattern |-> p, match |-> m] ELSE PhoneCascade(t, p + 1)

\* Index of the first pattern of the cascade that matches, 0 when none does.
FirstPhonePattern(t) == PhoneCascade(t, 1).pattern

\* re.sub(r'[^\d+]', '', match.group()) for the first matching pattern
\* (t is the stripped text, and some pattern matches it).
CleanedMatch(t) == KeepChars(MatchGroup0(t, PhoneCascade(t, 1).match), Digit \cup {"+"})

\* A canonicalisation that returns a text without usable digits as it is.
extract_phone_number_KeepText(txt, rnd) ==
    IF txt = "" THEN rnd
    ELSE LET t == Strip(txt)
             found == PhoneCascade(t, 1)
         IN  IF found.pattern # 0
             THEN FormatPhoneNumber(
                      KeepChars(MatchGroup0(t, found.match), Digit \cup {"+"}))
             ELSE LET combined == KeepChars(t, Digit)
                  IN  IF 10 <= Len(combined) /\ Len(combined) <= 15
                      THEN "+1" \o SubSeq(combined, 1, 10)
                      ELSE t

\* rnd is the number the random generator would produce at this call.
\* (None and '' are both falsy: the caller's None is the empty text here.)
extract_phone_number(txt, rnd) ==
    IF txt = "" THEN rnd
    ELSE LET t == Strip(txt)
             found == PhoneCascade(t, 1)
         IN  IF found.pattern # 0
             THEN FormatPhoneNumber(
                      KeepChars(MatchGroup0(t, found.match), Digit \cup {"+"}))
             ELSE LET combined == KeepChars(t, Digit)
                  IN  IF 10 <= Len(combined) /\ Len(combined) <= 15
                      THEN "+1" \o SubSeq(combined, 1, 10)
                      ELSE rnd

(***************************************************************************)
(* Specification of extract_phone_number: the argument is drawn from       *)
(* PhoneTexts, the call returns the canonical number.                      *)
(***************************************************************************)
PhoneTexts ==
    LET prefixes == {"", "+", "(", "+1 ", "44", "tel: "}
        areas == {"555", "20", ""}
        areaEnds == {"", ") ", "-"}
        mids == {"123", "7946"}
        midEnds == {"", "-"}
        lasts == {"4567", "456"}
        suffixes == {"", "890"}
    IN  {a \o b \o c \o d \o e \o f \o g :
            a \in prefixes, b \in areas, c \in areaEnds, d \in mids,
            e \in midEnds, f \in lasts, g \in suffixes}
        \cup {"", "   ", "abc", "(555) 123-4567", "441234567890", "123456789012345",
              " 555.123.4567 ", "+44 20 7946 0958", "15551234567",
              "12 34 56 78 90", "12 34 56 78 90 12", "12 34 56 78 90 12 34 5",
              "12 34 56 78 90 12 34 56", "call 555 12", "+", "a+b"}

InitPhone ==
    /\ pc = "phone"
    /\ text \in PhoneTexts
    /\ number = None
    /\ ClassifyIdle /\ TimestampIdle /\ DataIdle /\ PipelineIdle

ExtractPhoneNumber ==
    /\ pc = "phone"
    /\ \E rnd \in SynthPhones : number' = Some(extract_phone_number(text, rnd))
    /\ pc' = "phone_done"
    /\ UNCHANGED <<text, classifyVars, timestampVars, dataVars, user_phone, timeline,
                   contactVars, scoreVars>>

NextPhone == ExtractPhoneNumber

SpecPhone == InitPhone /\ [][NextPhone]_vars

(***************************************************************************)
(* Claims about extract_phone_number.                                      *)
(***************************************************************************)
AllDigits(s) == \A i \in 1..Len(s) : CharAt(s, i) \in Digit

\* C7: when a pattern of the cascade matches, the result is decided by the
\* cleaned first match c (digits and '+' only): c of exactly 10 digits gives
\* "+1" c; c of 11 digits starting with "1" gives "+" c; c starting with "+"
\* is returned unchanged; any other c gives "+" c.  "(555) 123-4567" gives
\* "+15551234567" and "441234567890" gives "+441234567890".
C7_PhoneCanonical ==
    /\ (pc = "phone_done" /\ text # "" /\ FirstPhonePattern(Strip(text)) # 0) =>
          LET c == CleanedMatch(Strip(text))
          IN  number = Some(IF AllDigits(c) /\ Len(c) = 10 THEN "+1" \o c
                            ELSE IF AllDigits(c) /\ Len(c) = 11 /\ CharAt(c, 1) = "1"
                                 THEN "+" \o c
                            ELSE IF CharAt(c, 1) = "+" THEN c
                            ELSE "+" \o c)
    /\ (pc = "phone_done" /\ text = "(555) 123-4567") => number = Some("+15551234567")
    /\ (pc = "phone_done" /\ text = "441234567890") => number = Some("+441234567890")

\* C7 witness: the US-format text was canonicalised through the ten-digit branch.
C7_Witness ==
    /\ pc = "phone_done"
    /\ text = "(555) 123-4567"
    /\ CleanedMatch(Strip(text)) = "5551234567"
    /\ number = Some("+15551234567")

(***************************************************************************)
(* Number formatting (f-strings).                                          *)
(***************************************************************************)
DigitChars == "0123456789"

\* str(n) for n >= 0
RECURSIVE IntToStr(_)
IntToStr(n) ==
    IF n < 10 THEN CharAt(DigitChars, n + 1)
    ELSE IntToStr(n \div 10) \o CharAt(DigitChars, (n % 10) + 1)

\* f"{n:0Wd}" for n >= 0
RECURSIVE ZeroPad(_, _)
ZeroPad(str, width) == IF Len(str) >= width THEN str ELSE ZeroPad("0" \o str, width)

(***************************************************************************)
(* datetime values: day is date.toordinal() (1 = Monday 0001-01-01), sec   *)
(* the second of the day, us the microsecond.                              *)
(***************************************************************************)
DateTime(day, sec, us) == [day |-> day, sec |-> sec, us |-> us]
Hour(ts) == ts.sec \div 3600
\* datetime.weekday(): Monday is 0
Weekday(ts) == (ts.day + 6) % 7
\* a < b on datetime
TsLess(a, b) ==
    \/ a.day < b.day
    \/ a.day = b.day /\ a.sec < b.sec
    \/ a.day = b.day /\ a.sec = b.sec /\ a.us < b.us

(***************************************************************************)
(* categorize_event_with_reasons                                           *)
(***************************************************************************)
\* suspicious_keywords, in the dict's insertion order
SmsKeywords == <<
    [category |-> "Financial",
     keywords |-> <<"payment", "bank", "transfer", "money", "bitcoin", "crypto", "pay",
                    "fund", "transaction", "cash", "deposit", "withdrawal">>],
    [category |-> "Suspicious",
     keywords |-> <<"delete", "burner", "encrypt", "vpn", "tor", "secret", "confidential",
                    "hide", "cover", "erase", "destroy">>],
    [category |-> "Urgent",
     keywords |-> <<"urgent", "emergency", "asap", "immediately", "quick", "rush", "now",
                    "stat">>],
    [category |-> "Coordination",
     keywords |-> <<"meet", "location", "address", "time", "place", "venue",
                    "coordinates", "where", "when", "parking">>],
    [category |-> "Spam",
     keywords |-> <<"win", "free", "prize", "offer", "discount", "click", "link", "http",
                    "www.", "congratulations", "selected">>],
    [category |-> "Threatening",
     keywords |-> <<"threat", "danger", "warning", "alert", "risk", "dangerous",
                    "careful">>] >>

\* email_red_flags, in the dict's insertion order
EmailKeywords == <<
    [category |-> "Phishing",
     keywords |-> <<"password", "login", "account", "verify", "security", "update",
                    "confirm">>],
    [category |-> "Financial",
     keywords |-> <<"invoice", "payment", "billing", "overdue", "refund", "charge", "fee">>],
    [category |-> "Suspicious",
     keywords |-> <<"urgent", "action required", "immediately", "important", "attention">>],
    [category |-> "Spam",
     keywords |-> <<"winner", "selected", "free", "offer", "discount", "limited time">>],
    [category |-> "Malicious",
     keywords |-> <<"attachment", "download", "click here", "link", "update now">>] >>

\* routine_keywords, in the dict's insertion order
RoutineKeywords == <<
    [category |-> "BUSINESS",
     keywords |-> <<"meeting", "project", "report", "deadline", "client", "customer",
                    "business", "work">>],
    [category |-> "PERSONAL",
     keywords |-> <<"love", "dear", "family", "friend", "happy", "birthday", "miss",
                    "home", "dinner">>],
    [category |-> "ROUTINE",
     keywords |-> <<"hello", "hi", "ok", "yes", "no", "thanks", "thank you", "please">>] >>

suspicious_domains == <<".ru", ".cn", ".tk", ".ml", ".ga", ".cf", ".xyz">>

\* Index of the last keyword of the list that occurs in txt, 0 when none does.
FirstKeyword_LastHit(keywords, txt) ==
    LET hits == {i \in 1..Len(keywords) : Contains(txt, keywords[i])}
    IN  IF hits = {} THEN 0 ELSE CHOOSE i \in hits : \A j \in hits : i >= j

\* Index of the first keyword of the list that occurs in txt, 0 when none does.
FirstKeyword(keywords, txt) ==
    LET hits == {i \in 1..Len(keywords) : Contains(txt, keywords[i])}
    IN  IF hits = {} THEN 0 ELSE CHOOSE i \in hits : \A j \in hits : i <= j

\* The keyword loop: one reason per category that has a keyword in txt.
RECURSIVE KeywordReasons(_, _, _)
KeywordReasons(table, txt, c) ==
    IF c > Len(table) THEN <<>>
    ELSE LET k == FirstKeyword(table[c].keywords, txt)
         IN  (IF k = 0 THEN <<>>
              ELSE <<table[c].category \o ": Contains '" \o table[c].keywords[k] \o "'">>)
             \o KeywordReasons(table, txt, c + 1)

LowerLetter == {CharAt(LowerChars, i) : i \in 1..26}

\* unusual_patterns: r'\d{4,}', r'[a-z]\d{3,}', r'\d{3,}[a-z]' and their source text
UnusualPatterns(n) == <<
    [src |-> "\\d{4,}",      pat |-> << Rep(Digit, 4, n) >>],
    [src |-> "[a-z]\\d{3,}", pat |-> << One(LowerLetter), Rep(Digit, 3, n) >>],
    [src |-> "\\d{3,}[a-z]", pat |-> << Rep(Digit, 3, n), One(LowerLetter) >>] >>

UnusualReason(message) ==
    LET n == IF Len(message) < 4 THEN 4 ELSE Len(message)
        ps == UnusualPatterns(n)
        hits == {i \in 1..Len(ps) : ReSearch(ps[i].pat, message).start # 0}
    IN  IF hits = {} THEN <<>>
        ELSE LET i == CHOOSE x \in hits : \A y \in hits : x <= y
             IN  <<"Unusual pattern: Contains '" \o ps[i].src \o "'">>

SmsReasons(rec) ==
    LET message == StrLower(rec.message)
    IN  KeywordReasons(SmsKeywords, message, 1)
        \o (IF Len(message) < 10
            THEN <<"Short message: Message length < 10 characters">> ELSE <<>>)
        \o UnusualReason(message)

EmailReasons(rec) ==
    LET content == StrLower(rec.subject) \o " " \o StrLower(rec.body)
        sender == StrLower(rec.sender)
    IN  KeywordReasons(EmailKeywords, content, 1)
        \o (IF rec.sender # "" /\ (Contains(sender, "anonymous") \/ Contains(sender, "noreply"))
            THEN <<"Anonymous sender">> ELSE <<>>)
        \o (IF \E i \in 1..Len(suspicious_domains) : Contains(sender, suspicious_domains[i])
            THEN <<"Suspicious sender domain">> ELSE <<>>)

(***************************************************************************)
(* Floating point. The percentages and the call durations are computed     *)
(* with Python floats, IEEE 754 doubles. A double is held as [m, e]: m the *)
(* bits of its significand, the most significant first and at most         *)
(* MantissaBits of them, e the exponent of the last bit; its value is      *)
(* m * 2^e. Every operation rounds its exact result to MantissaBits bits,  *)
(* a tie to the even significand.                                          *)
(***************************************************************************)
MantissaBits == 53

\* Sums and products are computed on limbs of LimbBits bits, and a division
\* gives DivisionBits bits of the quotient at each of DivisionSteps steps.
LimbBits == 24
DivisionBits == 11
DivisionSteps == 8

Zeros(n) == IF n <= 0 THEN <<>> ELSE [i \in 1..n |-> 0]

\* The bits without the leading zeros.
StripZeros(b) ==
    LET ones == {i \in 1..Len(b) : b[i] = 1}
    IN  IF ones = {} THEN <<>>
        ELSE SubSeq(b, CHOOSE i \in ones : \A j \in ones : i <= j, Len(b))

\* The bits of a natural number below 2^IntBits, the most significant first.
IntBits == 31
Bits(n) == StripZeros([i \in 1..IntBits |-> (n \div 2^(IntBits - i)) % 2])

\* v on n bits
PadBits(v, n) == LET b == Bits(v) IN Zeros(n - Len(b)) \o b

\* The natural number of a sequence of bits: that of its upper half, shifted
\* by the length of the lower half, and that of the lower half.
RECURSIVE BitsValue(_)
BitsValue(b) ==
    IF b = <<>> THEN 0
    ELSE IF Len(b) = 1 THEN b[1]
    ELSE LET low == Len(b) \div 2
         IN  BitsValue(SubSeq(b, 1, Len(b) - low)) * 2^low
             + BitsValue(SubSeq(b, Len(b) - low + 1, Len(b)))

\* The limbs of a sequence of bits, the least significant first.
Limbs(b) ==
    LET n == (Len(b) + LimbBits - 1) \div LimbBits
        p == Zeros(n * LimbBits - Len(b)) \o b
    IN  [k \in 1..n |->
            BitsValue(SubSeq(p, Len(p) - k * LimbBits + 1, Len(p) - (k - 1) * LimbBits))]

\* The bits of the sum of the limbs x and y from limb k on, with the carry
\* of the limbs below.
RECURSIVE LimbSum(_, _, _, _)
LimbSum(x, y, k, carry) ==
    IF k > Len(x) /\ k > Len(y) THEN Bits(carry)
    ELSE LET s == (IF k <= Len(x) THEN x[k] ELSE 0)
                  + (IF k <= Len(y) THEN y[k] ELSE 0) + carry
         IN  LimbSum(x, y, k + 1, s \div 2^LimbBits) \o PadBits(s % 2^LimbBits, LimbBits)

\* a + b on bits
BitsAdd(a, b) == StripZeros(LimbSum(Limbs(a), Limbs(b), 1, 0))

\* The bits of the product of the limbs x from limb k on and c, with the
\* carry of the limbs below.
RECURSIVE LimbProduct(_, _, _, _)
LimbProduct(x, c, k, carry) ==
    IF k > Len(x) THEN Bits(carry)
    ELSE LET p == x[k] * c + carry
         IN  LimbProduct(x, c, k + 1, p \div 2^LimbBits)
             \o PadBits(p % 2^LimbBits, LimbBits)

\* a * c on bits, c a natural number below 128
BitsMul(a, c) == StripZeros(LimbProduct(Limbs(a), c, 1, 0))

\* The double m * 2^e of a significand that rounding up may have carried to
\* one bit more than MantissaBits, the last of them 0.
Normalized(m, e) ==
    IF Len(m) > MantissaBits THEN [m |-> SubSeq(m, 1, MantissaBits), e |-> e + 1]
    ELSE [m |-> m, e |-> e]

\* The double nearest to b * 2^e, or to a value between b * 2^e and the next
\* multiple of 2^e when sticky is set (b then has more than MantissaBits
\* bits): a tie goes to the even significand.
RoundToDouble(b, e, sticky) ==
    IF Len(b) <= MantissaBits THEN [m |-> b, e |-> e]
    ELSE LET top == SubSeq(b, 1, MantissaBits)
             more == sticky \/ \E i \in MantissaBits + 2..Len(b) : b[i] = 1
             up == b[MantissaBits + 1] = 1 /\ (more \/ top[MantissaBits] = 1)
         IN  Normalized(IF up THEN BitsAdd(top, <<1>>) ELSE top,
                        e + Len(b) - MantissaBits)

\* 2^(DivisionBits * k) modulo b, for k in 0..DivisionSteps (b * b below 2^31)
PowersMod(b) ==
    LET p1 == 2^DivisionBits % b
        p2 == (p1 * p1) % b
        p3 == (p2 * p1) % b
        p4 == (p2 * p2) % b
    IN  <<1, p1, p2, p3, p4, (p4 * p1) % b, (p3 * p3) % b, (p4 * p3) % b, (p4 * p4) % b>>

\* a / b of two ints, and float(text) of a decimal text worth a / b: the
\* double nearest to the quotient (0 <= a, 0 < b, b * b < 2^31). The fraction
\* is divided by long division, DivisionBits bits at a step: step k divides
\* the remainder of step k - 1, which is a * 2^(DivisionBits * (k - 1)) modulo b.
DoubleOfRatio(a, b) ==
    LET pow == PowersMod(b)
        rem == [k \in 0..DivisionSteps |-> ((a % b) * pow[k + 1]) % b]
        digit == [k \in 1..DivisionSteps |-> (rem[k - 1] * 2^DivisionBits) \div b]
        fraction == [i \in 1..DivisionBits * DivisionSteps |->
                        (digit[(i - 1) \div DivisionBits + 1]
                            \div 2^(DivisionBits - 1 - ((i - 1) % DivisionBits))) % 2]
    IN  RoundToDouble(StripZeros(Bits(a \div b) \o fraction),
                      0 - DivisionBits * DivisionSteps, rem[DivisionSteps] # 0)

\* x + y
DoubleAdd(x, y) ==
    IF x.m = <<>> THEN y
    ELSE IF y.m = <<>> THEN x
    ELSE LET e == IF x.e < y.e THEN x.e ELSE y.e
         IN  RoundToDouble(StripZeros(BitsAdd(x.m \o Zeros(x.e - e), y.m \o Zeros(y.e - e))),
                           e, FALSE)

\* x * c, c an int
DoubleMul(x, c) ==
    IF x.m = <<>> THEN x ELSE RoundToDouble(BitsMul(x.m, c), x.e, FALSE)

\* int(x)
DoubleTrunc(x) ==
    IF x.e >= 0 THEN BitsValue(x.m \o Zeros(x.e))
    ELSE IF Len(x.m) + x.e <= 0 THEN 0
    ELSE BitsValue(SubSeq(x.m, 1, Len(x.m) + x.e))

\* The integer nearest to x, a tie going to the even one: the digits that
\* the format of a float prints.
DoubleRound(x) ==
    IF x.e >= 0 THEN BitsValue(x.m \o Zeros(x.e))
    ELSE LET b == Zeros(0 - x.e - Len(x.m)) \o x.m
             whole == BitsValue(SubSeq(b, 1, Len(b) + x.e))
             half == Len(b) + x.e + 1
             up == b[half] = 1 /\ (whole % 2 = 1 \/ \E i \in half + 1..Len(b) : b[i] = 1)
         IN  IF up THEN whole + 1 ELSE whole

\* Minutes are floats in the source; the model holds them in thousandths.
Milli == 1000

\* int((day_mins + eve_mins + night_mins) * 60), the minutes in thousandths:
\* each is the double float() gives for its text, and the sums and the
\* product are rounded to doubles before int() drops the fraction.
TotalDuration(day_mins, eve_mins, night_mins) ==
    DoubleTrunc(DoubleMul(DoubleAdd(DoubleAdd(DoubleOfRatio(day_mins, Milli),
                                              DoubleOfRatio(eve_mins, Milli)),
                                    DoubleOfRatio(night_mins, Milli)), 60))

\* "Create realistic call types"
CallType(total_duration, churn, custserv_calls, intl_mins) ==
    IF total_duration <= 5 THEN "MISSED"
    ELSE IF total_duration <= 15 THEN "SHORT_CALL"
    ELSE IF churn = "TRUE" /\ custserv_calls > 2 THEN "COMPLAINT"
    ELSE IF total_duration > 600 THEN "LONG_CALL"
    ELSE IF intl_mins > 10 * Milli THEN "INTERNATIONAL"
    ELSE "ANSWERED"

CallReasons(rec) ==
    (IF rec.duration <= 5 THEN <<"Very short call (<5 seconds)">>
     ELSE IF rec.duration > 3600 THEN <<"Extended communication (>1 hour)">>
     ELSE <<>>)
    \o (IF rec.call_details.intl_mins > 5 * Milli
        THEN <<"International call (>5 minutes)">> ELSE <<>>)
    \o (IF rec.call_details.churn = "TRUE" THEN <<"Churn risk customer">> ELSE <<>>)
    \o (IF rec.call_details.custserv_calls > 3
        THEN <<"Multiple customer service calls ("
               \o IntToStr(rec.call_details.custserv_calls) \o ")">>
        ELSE <<>>)
    \o (IF 0 <= Hour(rec.timestamp) /\ Hour(rec.timestamp) <= 5
        THEN <<"Late night call (" \o ZeroPad(IntToStr(Hour(rec.timestamp)), 2) \o ":00)">>
        ELSE <<>>)

\* The elements of a list.
Range(q) == {q[i] : i \in 1..Len(q)}

\* The cascade with Urgent tested before Financial.
CascadeTag_UrgentFirst(rs) ==
    IF (\E r \in Range(rs) : Contains(r, "Urgent")) THEN "URGENT"
    ELSE IF (\E r \in Range(rs) : Contains(r, "Financial")) THEN "FINANCIAL"
    ELSE IF (\E r \in Range(rs) : Contains(r, "Suspicious") \/ Contains(r, "Anonymous"))
         THEN "SUSPICIOUS"
    ELSE IF (\E r \in Range(rs) : Contains(r, "International")) THEN "INTERNATIONAL"
    ELSE IF (\E r \in Range(rs) : Contains(r, "Extended") \/ Contains(StrLower(r), "long"))
         THEN "EXTENDED_COMM"
    ELSE IF (\E r \in Range(rs) : Contains(r, "Spam") \/ Contains(r, "Phishing"))
         THEN "SPAM"
    ELSE "SUSPICIOUS"

\* "Determine category based on reasons": the if/elif chain over the reasons.
CascadeTag(rs) ==
    IF (\E r \in Range(rs) : Contains(r, "Financial")) THEN "FINANCIAL"
    ELSE IF (\E r \in Range(rs) : Contains(r, "Suspicious") \/ Contains(r, "Anonymous"))
         THEN "SUSPICIOUS"
    ELSE IF (\E r \in Range(rs) : Contains(r, "Urgent")) THEN "URGENT"
    ELSE IF (\E r \in Range(rs) : Contains(r, "International")) THEN "INTERNATIONAL"
    ELSE IF (\E r \in Range(rs) : Contains(r, "Extended") \/ Contains(StrLower(r), "long"))
         THEN "EXTENDED_COMM"
    ELSE IF (\E r \in Range(rs) : Contains(r, "Spam") \/ Contains(r, "Phishing"))
         THEN "SPAM"
    ELSE "SUSPICIOUS"

\* A routine pass that returns the last category of the table with a keyword.
RoutineResult_LastCategory(content) ==
    LET hits == {c \in 1..Len(RoutineKeywords) :
                    FirstKeyword(RoutineKeywords[c].keywords, StrLower(content)) # 0}
    IN  IF hits = {} THEN [tag |-> "ROUTINE", reasons |-> <<"Normal communication">>]
        ELSE [tag |-> RoutineKeywords[CHOOSE c \in hits : \A d \in hits : c >= d].category,
              reasons |-> <<"Routine communication">>]

\* The else branch: the routine keyword pass over content.
RoutineResult(content) ==
    LET hits == {c \in 1..Len(RoutineKeywords) :
                    FirstKeyword(RoutineKeywords[c].keywords, StrLower(content)) # 0}
    IN  IF hits = {} THEN [tag |-> "ROUTINE", reasons |-> <<"Normal communication">>]
        ELSE [tag |-> RoutineKeywords[CHOOSE c \in hits : \A d \in hits : c <= d].category,
              reasons |-> <<"Routine communication">>]

\* The reasons collected by the branch of the source kind (none for any other kind).
CollectedReasons(rec, st) ==
    IF st = "SMS" THEN SmsReasons(rec)
    ELSE IF st = "EMAIL" THEN EmailReasons(rec)
    ELSE IF st = "CALL" THEN CallReasons(rec)
    ELSE <<>>

\* The searchable text `content` (it stays '' for calls and unknown kinds).
SearchContent(rec, st) ==
    IF st = "SMS" THEN StrLower(rec.message)
    ELSE IF st = "EMAIL" THEN StrLower(rec.subject) \o " " \o StrLower(rec.body)
    ELSE ""

\* A classifier that tries the routine keywords before the collected reasons.
categorize_event_RoutineFirst(rec, st) ==
    LET rs == CollectedReasons(rec, st)
        routine == RoutineResult(SearchContent(rec, st))
    IN  IF rs = <<>> \/ routine.reasons = <<"Routine communication">> THEN routine
        ELSE [tag |-> CascadeTag(rs), reasons |-> rs]

categorize_event_with_reasons(rec, st) ==
    LET rs == CollectedReasons(rec, st)
    IN  IF rs # <<>> THEN [tag |-> CascadeTag(rs), reasons |-> rs]
        ELSE RoutineResult(SearchContent(rec, st))

(***************************************************************************)
(* Specification of categorize_event_with_reasons: the record and the      *)
(* source kind are drawn from ClassifyInputs, the call returns the tag and *)
(* the reasons.                                                            *)
(***************************************************************************)
Noon == DateTime(738949, 12 * 3600, 0)        \* Monday 2024-03-04 12:00:00
LateNight == DateTime(738949, 3 * 3600 + 1800, 0)

SmsRecord(id, ts, contact, direction, message) ==
    [id |-> id, timestamp |-> ts, contact |-> contact, direction |-> direction,
     message |-> message, source |-> "SMS"]

EmailRecord(id, ts, sender, recipient, subject, body) ==
    [id |-> id, timestamp |-> ts, sender |-> sender, recipient |-> recipient,
     subject |-> subject, body |-> body, source |-> "EMAIL"]

CallRecord(id, ts, contact, duration, type, details) ==
    [id |-> id, timestamp |-> ts, contact |-> contact, duration |-> duration,
     type |-> type, call_details |-> details, source |-> "CALL"]

CallDetails(day, eve, night, intl, churn, custserv) ==
    [day_mins |-> day, eve_mins |-> eve, night_mins |-> night, intl_mins |-> intl,
     churn |-> churn, custserv_calls |-> custserv]

ClassifyMessages ==
    {a \o b \o c \o d :
        a \in {"", "Please wire the payment via bitcoin now", "Send cash"},
        b \in {"", " delete the secret", " URGENT"},
        c \in {"", " meet me where we park", " You WIN a free prize", " a threat"},
        d \in {"", " hello", " ref 12345", " x123"}}
    \cup {"see you at home for dinner", "the project report for work and family",
          "what a day it was", "HELLO THERE FRIEND"}

ClassifyEmails ==
    {EmailRecord("EMAIL_000001", Noon, sd, "bob@company.com", sj, bd) :
        sd \in {"alice@company.com", "Anonymous@mail.org", "noreply@shop.ru", ""},
        sj \in {"Invoice overdue", "Verify your account", "Winner", "Team meeting", ""},
        bd \in {"", "Action Required immediately", "download the attachment",
                "happy birthday"}}

ClassifyCalls ==
    {CallRecord("CALL_000001", ts, "+15551234567", dur, "ANSWERED",
                CallDetails(0, 0, 0, intl, churn, cs)) :
        ts \in {Noon, LateNight}, dur \in {3, 5, 6, 3600, 3601},
        intl \in {0, 5 * Milli, 5 * Milli + 500}, churn \in {"TRUE", "FALSE"},
        cs \in {0, 3, 4}}

ClassifyInputs ==
    {<<SmsRecord("SMS_000001", Noon, "+15551234567", "INCOMING", m), st>> :
        m \in ClassifyMessages, st \in {"SMS", "MMS"}}
    \cup {<<r, "EMAIL">> : r \in ClassifyEmails}
    \cup {<<r, "CALL">> : r \in ClassifyCalls}

InitClassify ==
    /\ pc = "classify"
    /\ \E in \in ClassifyInputs : record = in[1] /\ source_type = in[2]
    /\ category = None
    /\ reasons = None
    /\ PhoneIdle /\ TimestampIdle /\ DataIdle /\ PipelineIdle

CategorizeEvent ==
    /\ pc = "classify"
    /\ LET res == categorize_event_with_reasons(record, source_type)
       IN  category' = Some(res.tag) /\ reasons' = res.reasons
    /\ pc' = "classify_done"
    /\ UNCHANGED <<record, source_type, phoneVars, timestampVars, dataVars, user_phone,
                   timeline,
                   contactVars, scoreVars>>

NextClassify == CategorizeEvent

SpecClassify == InitClassify /\ [][NextClassify]_vars

(***************************************************************************)
(* Claims about categorize_event_with_reasons.                             *)
(***************************************************************************)
\* Some returned reason contains w.
Mentions(w) == \E i \in 1..Len(reasons) : Contains(reasons[i], w)
MentionsAnyCase(w) == \E i \in 1..Len(reasons) : Contains(StrLower(reasons[i]), w)

\* C2: when at least one reason was collected, the tag follows the priority
\* Financial > (Suspicious or Anonymous) > Urgent > International >
\* (Extended or "long") > (Spam or Phishing) > SUSPICIOUS as catch-all over
\* the returned reason texts; "Please wire the payment via bitcoin now" has a
\* Financial and an Urgent reason and is tagged FINANCIAL.
C2_CascadePriority ==
    /\ (pc = "classify_done" /\ CollectedReasons(record, source_type) # <<>>) =>
          LET fin == Mentions("Financial")
              sus == Mentions("Suspicious") \/ Mentions("Anonymous")
              urg == Mentions("Urgent")
              int == Mentions("International")
              ext == Mentions("Extended") \/ MentionsAnyCase("long")
              spm == Mentions("Spam") \/ Mentions("Phishing")
          IN  /\ reasons # <<>>
              /\ fin => category = Some("FINANCIAL")
              /\ (~fin /\ sus) => category = Some("SUSPICIOUS")
              /\ (~fin /\ ~sus /\ urg) => category = Some("URGENT")
              /\ (~fin /\ ~sus /\ ~urg /\ int) => category = Some("INTERNATIONAL")
              /\ (~fin /\ ~sus /\ ~urg /\ ~int /\ ext) => category = Some("EXTENDED_COMM")
              /\ (~fin /\ ~sus /\ ~urg /\ ~int /\ ~ext /\ spm) => category = Some("SPAM")
              /\ (~fin /\ ~sus /\ ~urg /\ ~int /\ ~ext /\ ~spm) =>
                    category = Some("SUSPICIOUS")
    /\ (/\ pc = "classify_done"
        /\ source_type = "SMS"
        /\ record.message = "Please wire the payment via bitcoin now") =>
          /\ category = Some("FINANCIAL")
          /\ \E i \in 1..Len(reasons) : reasons[i] = "Financial: Contains 'payment'"

\* C2 witness: the example message was classified with both a Financial and an
\* Urgent reason collected.
C2_Witness ==
    /\ pc = "classify_done"
    /\ source_type = "SMS"
    /\ record.message = "Please wire the payment via bitcoin now"
    /\ Mentions("Financial") /\ Mentions("Urgent")
    /\ category = Some("FINANCIAL")

(***************************************************************************)
(* find_user_phone_number                                                  *)
(***************************************************************************)
\* The keys of Counter(contact for ... if number and number.startswith('+')),
\* in insertion order.
RECURSIVE PlusContacts(_, _)
PlusContacts(data, seen) ==
    IF data = <<>> THEN <<>>
    ELSE LET c == Head(data).contact
         IN  IF c # "" /\ StartsWith(c, "+") /\ c \notin seen
             THEN <<c>> \o PlusContacts(Tail(data), seen \cup {c})
             ELSE PlusContacts(Tail(data), seen)

CountContact(data, c) == Cardinality({i \in 1..Len(data) : data[i].contact = c})

\* most_common(1) that gives the last of the keys with the largest count.
MostCommon_LastOfTies(keys, count) ==
    LET best == {i \in 1..Len(keys) : \A j \in 1..Len(keys) : count[keys[j]] <= count[keys[i]]}
    IN  keys[CHOOSE i \in best : \A j \in best : j <= i]

\* Counter.most_common(1)[0][0]: the first key, in insertion order, that has
\* the largest count.
MostCommon(keys, count) ==
    LET best == {i \in 1..Len(keys) : \A j \in 1..Len(keys) : count[keys[j]] <= count[keys[i]]}
    IN  keys[CHOOSE i \in best : \A j \in best : i <= j]

\* sms_numbers + call_numbers, then most_common(1): the first key of the sum,
\* in its insertion order, that has the largest count.
find_user_phone_number(sms, calls) ==
    LET smsKeys == PlusContacts(sms, {})
        keys == smsKeys \o PlusContacts(calls, Range(smsKeys))
        count == [c \in Range(keys) |-> CountContact(sms, c) + CountContact(calls, c)]
    IN  IF keys = <<>> THEN None ELSE Some(MostCommon(keys, count))

(***************************************************************************)
(* create_timeline                                                         *)
(***************************************************************************)
\* The kinds of records of the score profiles further down, and their hours.
ScoreHours == {2, 12, 20}
ScoreKinds == {"routine", "financial", "suspicious", "international", "extended"}

\* The source of the record behind an event of each kind: a call for the
\* kinds that only calls have, and else an SMS, or an email where the contact
\* is to be unknown (an SMS or call contact is a '+' and digits, an email
\* sender any text).
KindSource(kind, unknown) ==
    IF kind \in {"international", "extended"} THEN "CALL"
    ELSE IF unknown THEN "EMAIL" ELSE "SMS"

\* The record load_call_data makes of a duration and the details of a row:
\* the type follows from them.
TypedCall(id, ts, contact, total_duration, call_details) ==
    CallRecord(id, ts, contact, total_duration,
               CallType(total_duration, call_details.churn, call_details.custserv_calls,
                        call_details.intl_mins),
               call_details)

CallKinds == {"international", "extended"}

\* The call records of the kinds, as load_call_data makes them of 10 day
\* minutes with 6 international minutes, and of 67 day minutes: the duration
\* and the type follow from the minutes.
KindCalls ==
    [kind \in CallKinds |->
        TypedCall("", Noon, "",
                  TotalDuration(IF kind = "international" THEN 10 * Milli ELSE 67 * Milli,
                                0, 0),
                  CallDetails(IF kind = "international" THEN 10 * Milli ELSE 67 * Milli,
                              0, 0, IF kind = "international" THEN 6 * Milli ELSE 0,
                              "FALSE", 0))]

\* The normalised record behind an event of each kind, as the loader of its
\* source returns it.
KindRecord(kind, ts, unknown) ==
    IF kind \in CallKinds THEN [KindCalls[kind] EXCEPT !.timestamp = ts]
    ELSE IF unknown
    THEN EmailRecord("", ts, "Unknown", "amy@y.org",
                     IF kind = "financial" THEN "Invoice" ELSE "lunch",
                     IF kind = "suspicious" THEN "this is urgent" ELSE "see you at lunch")
    ELSE SmsRecord("", ts, "", IF kind = "financial" THEN "OUTGOING" ELSE "INCOMING",
                   IF kind = "routine" THEN "see you at lunch"
                   ELSE IF kind = "financial" THEN "send the payment today"
                   ELSE "delete the messages")

\* The record without what the classifier does not read: the id and the
\* contact, and the timestamp but for its hour.
ClassifiedPart(rec, st) ==
    LET at == DateTime(Noon.day, Hour(rec.timestamp) * 3600, 0)
    IN  IF st = "EMAIL" THEN [rec EXCEPT !.id = "", !.timestamp = at]
        ELSE [rec EXCEPT !.id = "", !.timestamp = at, !.contact = ""]

\* categorize_event_with_reasons of the records of the score profiles,
\* computed once.
CategoryTable ==
    [r \in {KindRecord(k, DateTime(Noon.day, h * 3600, 0), u) :
               k \in ScoreKinds, h \in ScoreHours, u \in BOOLEAN} |->
        categorize_event_with_reasons(r, r.source)]

\* category, reasons = categorize_event_with_reasons(record, source_type),
\* taken from the table where the table holds it.
Lookup(table, part, rec, st) ==
    IF st = rec.source /\ part \in DOMAIN table THEN table[part]
    ELSE categorize_event_with_reasons(rec, st)

Categorized(rec, st) == Lookup(CategoryTable, ClassifiedPart(rec, st), rec, st)

\* str[:n]
Truncate(str, n) == SubSeq(str, 1, IF Len(str) < n THEN Len(str) ELSE n)

\* user_phone if user_phone else 'Unknown'
UserInvolved(up) == IF up # None /\ up # Some("") THEN up[1] ELSE "Unknown"

SmsEvent(rec, up) ==
    LET res == Categorized(rec, "SMS")
    IN  [id |-> rec.id, timestamp |-> rec.timestamp, contact |-> rec.contact,
         source |-> "SMS", type |-> rec.direction,
         content |-> Truncate(rec.message, 200),
         forensic_tag |-> res.tag, reasons |-> res.reasons,
         details |-> [direction |-> rec.direction, message_length |-> Len(rec.message),
                      user_involved |-> UserInvolved(up)]]

CallEvent(rec, up) ==
    LET res == Categorized(rec, "CALL")
    IN  [id |-> rec.id, timestamp |-> rec.timestamp, contact |-> rec.contact,
         source |-> "CALL", type |-> rec.type,
         content |-> "Duration: " \o IntToStr(rec.duration) \o "s | Type: " \o rec.type,
         forensic_tag |-> res.tag, reasons |-> res.reasons,
         details |-> [duration |-> rec.duration, call_type |-> rec.type,
                      churn |-> rec.call_details.churn,
                      user_involved |-> UserInvolved(up)]]

EmailEvent(rec, up) ==
    LET res == Categorized(rec, "EMAIL")
    IN  [id |-> rec.id, timestamp |-> rec.timestamp, contact |-> rec.sender,
         source |-> "EMAIL", type |-> "SENT",
         content |-> "To: " \o rec.recipient \o " | Subject: "
                     \o Truncate(rec.subject, 100),
         forensic_tag |-> res.tag, reasons |-> res.reasons,
         details |-> [recipient |-> rec.recipient, subject |-> rec.subject,
                      body_length |-> Len(rec.body),
                      user_involved |-> UserInvolved(up)]]

\* A position that puts an event before the earlier events of equal timestamp.
SortedPosition_LaterFirst(q, i) ==
    1 + Cardinality({j \in 1..Len(q) :
                        \/ TsLess(q[j].timestamp, q[i].timestamp)
                        \/ j > i /\ q[j].timestamp = q[i].timestamp})

\* list.sort(key=timestamp) is stable: element i goes after the elements of
\* smaller timestamp and after the earlier elements of equal timestamp.
SortedPosition(q, i) ==
    1 + Cardinality({j \in 1..Len(q) :
                        \/ TsLess(q[j].timestamp, q[i].timestamp)
                        \/ j < i /\ q[j].timestamp = q[i].timestamp})

SortByTimestamp(q) ==
    LET pos == [i \in 1..Len(q) |-> SortedPosition(q, i)]
    IN  [k \in 1..Len(q) |-> q[CHOOSE i \in 1..Len(q) : pos[i] = k]]

\* A timeline that leaves the email records out.
create_timeline_NoEmail(sms, calls, emails, up) ==
    SortByTimestamp([i \in 1..Len(sms) |-> SmsEvent(sms[i], up)]
                    \o [i \in 1..Len(calls) |-> CallEvent(calls[i], up)])

create_timeline(sms, calls, emails, up) ==
    SortByTimestamp([i \in 1..Len(sms) |-> SmsEvent(sms[i], up)]
                    \o [i \in 1..Len(calls) |-> CallEvent(calls[i], up)]
                    \o [i \in 1..Len(emails) |-> EmailEvent(emails[i], up)])

(***************************************************************************)
(* extract_contacts                                                        *)
(***************************************************************************)
\* Countable without the conversion to lower case.
Countable_CaseSensitive(contact) ==
    contact # "" /\ contact \notin {"unknown", "", "null", "none"}

\* contact and contact.lower() not in ['unknown', '', 'null', 'none']
Countable(contact) ==
    contact # "" /\ StrLower(contact) \notin {"unknown", "", "null", "none"}

\* A contact_details entry; a count of 0 and a last-seen of None stand for a
\* key that is not in the dict.
NoDetails ==
    [sms_count |-> 0, last_contact |-> None,
     call_count |-> 0, total_call_duration |-> 0, last_call |-> None,
     sent_email_count |-> 0, last_email_sent |-> None,
     received_email_count |-> 0, last_email_received |-> None]

\* A last-seen value that is the timestamp of the record read last.
Latest_LastRead(last, ts) == Some(ts)

\* The later of the stored last-seen value and ts.
Latest(last, ts) == IF last = None \/ TsLess(last[1], ts) THEN Some(ts) ELSE last

DetailsOf(st, c) == IF c \in DOMAIN st.details THEN st.details[c] ELSE NoDetails

\* contact_counts[c] += 1 and the update d of contact_details[c]
Counted(st, c, d) ==
    [counts |-> IF c \in DOMAIN st.counts
                THEN [st.counts EXCEPT ![c] = @ + 1]
                ELSE (c :> 1) @@ st.counts,
     details |-> IF c \in DOMAIN st.details
                 THEN [st.details EXCEPT ![c] = d]
                 ELSE (c :> d) @@ st.details]

CountSms(st, rec) ==
    LET c == Strip(rec.contact)
        d == DetailsOf(st, c)
    IN  IF ~Countable(c) THEN st
        ELSE Counted(st, c, [d EXCEPT !.sms_count = @ + 1,
                                      !.last_contact = Latest(@, rec.timestamp)])

CountCall(st, rec) ==
    LET c == Strip(rec.contact)
        d == DetailsOf(st, c)
    IN  IF ~Countable(c) THEN st
        ELSE Counted(st, c, [d EXCEPT !.call_count = @ + 1,
                                      !.total_call_duration = @ + rec.duration,
                                      !.last_call = Latest(@, rec.timestamp)])

CountEmail(st, rec) ==
    LET sender == Strip(rec.sender)
        recipient == Strip(rec.recipient)
        ds == DetailsOf(st, sender)
        s1 == IF ~Countable(sender) THEN st
              ELSE Counted(st, sender,
                           [ds EXCEPT !.sent_email_count = @ + 1,
                                      !.last_email_sent = Latest(@, rec.timestamp)])
        dr == DetailsOf(s1, recipient)
    IN  IF ~Countable(recipient) THEN s1
        ELSE Counted(s1, recipient,
                     [dr EXCEPT !.received_email_count = @ + 1,
                                !.last_email_received = Latest(@, rec.timestamp)])

\* for record in sms_data: ...
RECURSIVE CountAllSms(_, _)
CountAllSms(st, data) ==
    IF data = <<>> THEN st
    ELSE LET counted == CountSms(st, Head(data))
         IN  IF counted = st THEN CountAllSms(st, Tail(data))
             ELSE CountAllSms(counted, Tail(data))

\* for record in call_data: ...
RECURSIVE CountAllCalls(_, _)
CountAllCalls(st, data) ==
    IF data = <<>> THEN st
    ELSE LET counted == CountCall(st, Head(data))
         IN  IF counted = st THEN CountAllCalls(st, Tail(data))
             ELSE CountAllCalls(counted, Tail(data))

\* for record in email_data: ...
RECURSIVE CountAllEmails(_, _)
CountAllEmails(st, data) ==
    IF data = <<>> THEN st
    ELSE LET counted == CountEmail(st, Head(data))
         IN  IF counted = st THEN CountAllEmails(st, Tail(data))
             ELSE CountAllEmails(counted, Tail(data))

extract_contacts(sms, calls, emails) ==
    CountAllEmails(
        CountAllCalls(CountAllSms([counts |-> <<>>, details |-> <<>>], sms), calls),
        emails)

(***************************************************************************)
(* Specification of the pipeline of main(): the loaders deliver normalised *)
(* records (drawn from the pools below, numbered as the loaders number     *)
(* them), then find_user_phone_number, create_timeline and                 *)
(* extract_contacts run in main's order.                                   *)
(***************************************************************************)
MaxRecords == 3

\* f"SMS_{i+1:06d}"
RecordId(prefix, n) == prefix \o "_" \o ZeroPad(IntToStr(n), 6)

\* The records load_sms_data returns: the contact is a '+' and digits, the
\* message is stripped and not empty.
SmsPool ==
    {[timestamp |-> ts, contact |-> c, direction |-> "INCOMING",
      message |-> IF c = "+15551234567" THEN "pay now" ELSE "hi"] :
        ts \in {Noon, LateNight}, c \in {"+15551234567", "+12001000"}}
    \cup {[timestamp |-> Noon, contact |-> "+15551234567", direction |-> "OUTGOING",
           message |-> m] : m \in {"happy birthday", "see you at lunch"}}

\* The record load_call_data makes of the minutes, the churn and the service
\* calls of a row: the duration and the type follow from them.
PoolCall(ts, contact, day_mins, eve_mins, night_mins, intl_mins, churn, custserv_calls) ==
    TypedCall("", ts, contact, TotalDuration(day_mins, eve_mins, night_mins),
              CallDetails(day_mins, eve_mins, night_mins, intl_mins, churn, custserv_calls))

\* The records load_call_data returns: calls of 120 s, a call of 3 s and a
\* long call with international minutes.
CallPool ==
    {PoolCall(Noon, c, 2 * Milli, 0, 0, 0, "FALSE", 0) : c \in {"+15551234567", "+12001000"}}
    \cup {PoolCall(LateNight, "+15551234567", 50, 0, 0, 0, "FALSE", 0),
          PoolCall(Noon, "+442079460958", 11 * Milli, 700, 0, 12 * Milli, "FALSE", 0)}

\* The records load_email_data returns: the sender and the recipient are the
\* stripped texts of the file, whatever they are.
EmailPool ==
    {[timestamp |-> Noon, sender |-> p[1], recipient |-> p[2], subject |-> "hi",
      body |-> "ok"] :
        p \in {<<"bob@x.com", "Unknown">>, <<"NULL", "+15551234567">>,
               <<"amy@y.org", "bob@x.com">>, <<"Bob@x.com", "bob@x.com">>}}
    \cup {[timestamp |-> LateNight, sender |-> "Bob@x.com", recipient |-> "bob@x.com",
           subject |-> "hi", body |-> "ok"]}

TotalRecords == Len(sms_data) + Len(call_data) + Len(email_data)

Init ==
    /\ pc = "load"
    /\ DataIdle /\ PipelineIdle /\ PhoneIdle /\ ClassifyIdle /\ TimestampIdle

LoadSms ==
    /\ pc = "load" /\ TotalRecords < MaxRecords
    /\ \E r \in SmsPool :
          sms_data' = Append(sms_data,
                             SmsRecord(RecordId("SMS", Len(sms_data) + 1), r.timestamp,
                                       r.contact, r.direction, r.message))
    /\ UNCHANGED <<pc, csv_file, call_data, email_data, user_phone, timeline, contactVars,
                   scoreVars, phoneVars, classifyVars,
                   timestampVars>>

LoadCall ==
    /\ pc = "load" /\ TotalRecords < MaxRecords
    /\ \E r \in CallPool :
          call_data' = Append(call_data,
                              CallRecord(RecordId("CALL", Len(call_data) + 1), r.timestamp,
                                         r.contact, r.duration, r.type, r.call_details))
    /\ UNCHANGED <<pc, csv_file, sms_data, email_data, user_phone, timeline, contactVars,
                   scoreVars, phoneVars, classifyVars,
                   timestampVars>>

LoadEmail ==
    /\ pc = "load" /\ TotalRecords < MaxRecords
    /\ \E r \in EmailPool :
          email_data' = Append(email_data,
                               EmailRecord(RecordId("EMAIL", Len(email_data) + 1),
                                           r.timestamp, r.sender, r.recipient, r.subject,
                                           r.body))
    /\ UNCHANGED <<pc, csv_file, sms_data, call_data, user_phone, timeline, contactVars,
                   scoreVars, phoneVars, classifyVars,
                   timestampVars>>

\* main: user_phone = find_user_phone_number(sms_data, call_data); main
\* returns before it when nothing was loaded.
FindUserPhone ==
    /\ pc = "load" /\ TotalRecords > 0
    /\ user_phone' = find_user_phone_number(sms_data, call_data)
    /\ pc' = "identified"
    /\ UNCHANGED <<dataVars, timeline, contactVars, scoreVars, phoneVars, classifyVars,
                   timestampVars>>

\* main: timeline = create_timeline(sms_data, call_data, email_data, user_phone)
CreateTimeline ==
    /\ pc = "identified"
    /\ timeline' = create_timeline(sms_data, call_data, email_data, user_phone)
    /\ pc' = "fused"
    /\ UNCHANGED <<dataVars, user_phone, contactVars, scoreVars, phoneVars, classifyVars,
                   timestampVars>>

\* main: contact_counts, _ = extract_contacts(sms_data, call_data, email_data)
ExtractContacts ==
    /\ pc = "fused"
    /\ LET res == extract_contacts(sms_data, call_data, email_data)
       IN  contact_counts' = res.counts /\ contact_details' = res.details
    /\ pc' = "aggregated"
    /\ UNCHANGED <<dataVars, user_phone, timeline, scoreVars, phoneVars, classifyVars,
                   timestampVars>>

Next ==
    \/ LoadSms \/ LoadCall \/ LoadEmail
    \/ FindUserPhone \/ CreateTimeline \/ ExtractContacts

Spec == Init /\ [][Next]_vars

(***************************************************************************)
(* Claims about create_timeline and extract_contacts.                      *)
(***************************************************************************)
\* The position at which create_timeline constructed the event: the SMS
\* records in input order, then the calls, then the emails.
ConstructionIndex(e) ==
    IF e.source = "SMS" THEN CHOOSE k \in 1..Len(sms_data) : sms_data[k].id = e.id
    ELSE IF e.source = "CALL"
         THEN Len(sms_data) + (CHOOSE k \in 1..Len(call_data) : call_data[k].id = e.id)
    ELSE Len(sms_data) + Len(call_data)
         + (CHOOSE k \in 1..Len(email_data) : email_data[k].id = e.id)

\* C1: the timeline create_timeline returns is sorted by timestamp ascending,
\* and two events of equal timestamp appear in construction order: SMS before
\* CALL before EMAIL, and input row order within a source.
C1_TimelineSortedStable ==
    pc \in {"fused", "aggregated"} =>
        /\ Len(timeline) = TotalRecords
        /\ \A i, j \in 1..Len(timeline) :
              i < j =>
                /\ ~TsLess(timeline[j].timestamp, timeline[i].timestamp)
                /\ timeline[i].timestamp = timeline[j].timestamp =>
                      ConstructionIndex(timeline[i]) < ConstructionIndex(timeline[j])

\* C1 witness: two SMS rows and one call row sharing one timestamp were fused
\* and appear SMS, SMS, CALL.
C1_Witness ==
    /\ pc = "fused"
    /\ Len(sms_data) = 2 /\ Len(call_data) = 1 /\ Len(timeline) = 3
    /\ \A i \in 1..3 : timeline[i].timestamp = Noon
    /\ timeline[1].id = "SMS_000001" /\ timeline[2].id = "SMS_000002"
    /\ timeline[3].source = "CALL"

Blacklisted(k) == StrLower(Strip(k)) \in {"", "unknown", "null", "none"}

\* C6: after extract_contacts no key of the returned contact maps is, trimmed
\* and ignoring letter case, one of '', 'unknown', 'null', 'none'.
C6_NoBlacklistedKey ==
    pc = "aggregated" =>
        \A k \in DOMAIN contact_counts \cup DOMAIN contact_details : ~Blacklisted(k)

\* C6 witness: an email sender "NULL" and an email recipient "Unknown" were
\* aggregated next to an SMS contact, and only the regular addresses became
\* keys.
C6_Witness ==
    /\ pc = "aggregated"
    /\ \E i \in 1..Len(sms_data) : sms_data[i].contact = "+12001000"
    /\ \E i \in 1..Len(email_data) : email_data[i].sender = "NULL"
    /\ \E i \in 1..Len(email_data) : email_data[i].recipient = "Unknown"
    /\ DOMAIN contact_counts = {"+12001000", "+15551234567", "bob@x.com"}
    /\ DOMAIN contact_details = {"+12001000", "+15551234567", "bob@x.com"}

(***************************************************************************)
(* detect_suspicious_patterns_with_details and the simple risk score       *)
(***************************************************************************)
\* f"{n:,}"
RECURSIVE Commas(_)
Commas(n) ==
    IF n < 1000 THEN IntToStr(n)
    ELSE Commas(n \div 1000) \o "," \o ZeroPad(IntToStr(n % 1000), 3)

\* The tenths nearest to a percentage, a tie to the even digit.
Tenths(percentage) ==
    DoubleRound([m |-> BitsMul(percentage.m, 10), e |-> percentage.e])

FormatTenths(tenths) == IntToStr(tenths \div 10) \o "." \o IntToStr(tenths % 10)

\* f"{k / n * 100:.1f}": the quotient and the product are rounded to doubles,
\* and the format prints the decimal nearest to the product, a tie to the
\* even digit. Where 1000 * k / n does not lie halfway between two integers
\* it is at least 1 / (2 * n) away from halfway, more than the roundings of
\* the quotient and of the product move it, and the tenths are those of the
\* exact quotient; where it lies halfway the doubles decide.
Percent1(k, n) ==
    LET q == (1000 * k) \div n
        r == (1000 * k) % n
    IN  FormatTenths(IF 2 * r = n THEN Tenths(DoubleMul(DoubleOfRatio(k, n), 100))
                     ELSE IF 2 * r > n THEN q + 1 ELSE q)

\* (b - a).seconds for a <= b: the seconds field of the normalised timedelta,
\* which leaves out the whole days of the difference.
TimedeltaSeconds(a, b) ==
    (b.sec - a.sec - (IF b.us < a.us THEN 1 ELSE 0)) % 86400

\* The loop of check 2 over the adjacent pairs of the sorted timeline.
RapidSequences(tl) ==
    Cardinality({i \in 2..Len(tl) :
                    TimedeltaSeconds(tl[i - 1].timestamp, tl[i].timestamp) < 30})

\* Counter(contact for e in timeline).most_common(1)[0][0]: the contact of the
\* largest count that was counted first.
TopContact(tl) ==
    LET count(i) == Cardinality({j \in 1..Len(tl) : tl[j].contact = tl[i].contact})
        best == {i \in 1..Len(tl) : \A j \in 1..Len(tl) : count(j) <= count(i)}
    IN  tl[CHOOSE i \in best : \A j \in best : i <= j].contact

\* A threshold that the share of exactly 20% reaches.
LateNightExceeds_AtLeast(late, n) == 100 * late >= 20 * n

\* late_night_percentage > 20, with late_night_percentage = late / n * 100
LateNightExceeds(late, n) == 100 * late > 20 * n

\* A threshold that the share of exactly 20% meets.
LowBusinessShare_AtMost(business, n) == 100 * business <= 20 * n

\* business_percentage < 20, with business_percentage = business / n * 100
LowBusinessShare(business, n) == 100 * business < 20 * n

TagCount(tl, tag) == Cardinality({i \in 1..Len(tl) : tl[i].forensic_tag = tag})

\* flags.append((label, explanation)) under its condition
Flag(cond, label, explanation) == IF cond THEN << <<label, explanation>> >> ELSE <<>>

\* The ten checks on a timeline of at least ten events, already sorted by
\* check 2. A percentage p = k / n * 100 is compared as the integers
\* 100 * k and p * n, a product n * 0.05 as 5 * n and 100 * k.
RiskFlags(tl, up) ==
    LET n == Len(tl)
        late == Cardinality({i \in 1..n : 0 <= Hour(tl[i].timestamp)
                                           /\ Hour(tl[i].timestamp) <= 5})
        rapid == RapidSequences(tl)
        unknown == Cardinality({i \in 1..n : Contains(StrLower(tl[i].contact), "unknown")})
        financial == TagCount(tl, "FINANCIAL")
        suspicious == TagCount(tl, "SUSPICIOUS")
        international == TagCount(tl, "INTERNATIONAL")
        extended == TagCount(tl, "EXTENDED_COMM")
        weekend == Cardinality({i \in 1..n : Weekday(tl[i].timestamp) >= 5})
        top == TopContact(tl)
        top_count == Cardinality({i \in 1..n : tl[i].contact = top})
        business == Cardinality({i \in 1..n : 9 <= Hour(tl[i].timestamp)
                                               /\ Hour(tl[i].timestamp) <= 17})
    IN  Flag(LateNightExceeds(late, n),
             "High late-night activity: " \o Commas(late) \o " events ("
                \o Percent1(late, n) \o "%)",
             "Normal business/personal communications typically occur during daytime. High nighttime activity ("
                \o Percent1(late, n) \o "%) may indicate covert communications.")
        \o Flag(100 * rapid > 5 * n,
             "Rapid-fire communications: " \o Commas(rapid) \o " sequences <30s apart",
             "Multiple communications within seconds may indicate coordination, panic, or automated communications.")
        \o Flag(10 * unknown > n,
             "High unknown contacts: " \o Commas(unknown) \o " ("
                \o Percent1(unknown, n) \o "%)",
             "High percentage of communications with unknown/unidentified contacts may indicate attempts to hide identities.")
        \o Flag(financial > 10,
             "Financial-related communications: " \o Commas(financial),
             "Multiple financial-related communications may indicate money transfers, scams, or financial crimes.")
        \o Flag(suspicious > 5,
             "Suspicious keyword communications: " \o Commas(suspicious),
             "Communications contain suspicious keywords like 'delete', 'secret', 'encrypt', etc.")
        \o Flag(international > 3,
             "International communications: " \o Commas(international),
             "International communications may indicate foreign contacts or cross-border activities.")
        \o Flag(extended > 2,
             "Extended communications (>1 hour): " \o Commas(extended),
             "Exceptionally long communications may indicate detailed planning or negotiations.")
        \o Flag(100 * weekend > 40 * n,
             "High weekend activity: " \o Percent1(weekend, n) \o "%",
             "Unusually high weekend activity may indicate non-business related communications or shift work.")
        \o Flag(10 * top_count > 3 * n,
             "High concentration with single contact: " \o Truncate(top, 20) \o "... ("
                \o Commas(top_count) \o " events, " \o Percent1(top_count, n) \o "%)",
             "Over 30% of all communications are with a single contact, which may indicate a primary relationship or dependency.")
        \o Flag(up # None /\ up # Some("") /\ LowBusinessShare(business, n),
             "Low business hours activity: " \o Percent1(business, n) \o "%",
             "Most communications occur outside normal business hours (9AM-5PM), which may indicate non-work related activities.")

\* if not timeline or len(timeline) < 10: return flags
MinEvents == 10

\* A scorer that leaves the caller's list latest event first.
ScoredTimeline_LatestFirst(tl) ==
    IF Len(tl) < MinEvents THEN tl
    ELSE [i \in 1..Len(tl) |-> SortByTimestamp(tl)[Len(tl) + 1 - i]]

\* The timeline as the call leaves it: check 2 sorts the caller's list in place.
ScoredTimeline(tl) == IF Len(tl) < MinEvents THEN tl ELSE SortByTimestamp(tl)

\* A scorer that reports an empty timeline as a flag.
detect_suspicious_patterns_NoData(tl, up) ==
    IF tl = <<>> THEN Flag(TRUE, "No data", "The timeline holds no event.")
    ELSE IF Len(tl) < MinEvents THEN <<>>
    ELSE Truncate(RiskFlags(SortByTimestamp(tl), up), 10)

\* A scorer without the minimum of ten events.
detect_suspicious_patterns_NoMinimum(tl, up) ==
    IF tl = <<>> THEN <<>> ELSE Truncate(RiskFlags(SortByTimestamp(tl), up), 10)

detect_suspicious_patterns_with_details(tl, up) ==
    IF Len(tl) < MinEvents THEN <<>>
    ELSE Truncate(RiskFlags(SortByTimestamp(tl), up), 10)

\* A score that is the number of flags.
SimpleScore_FlagCount(fl) == Len(fl)

\* risk_score = min(len(flags) * 10, 100)
SimpleScore(fl) == IF Len(fl) * 10 < 100 THEN Len(fl) * 10 ELSE 100

(***************************************************************************)
(* suspicious_communications_analysis: the detailed risk assessment        *)
(***************************************************************************)
\* user_phone if user_phone else "User's Phone"
UserIdentifier(up) == IF up # None /\ up # Some("") THEN up[1] ELSE "User's Phone"

\* get_communication_details: the source and the destination of an event
get_communication_details(event, up) ==
    IF event.source = "SMS"
    THEN IF StrUpper(event.type) = "OUTGOING"
         THEN [source |-> UserIdentifier(up), destination |-> event.contact]
         ELSE [source |-> event.contact, destination |-> UserIdentifier(up)]
    ELSE IF event.source = "CALL"
    THEN [source |-> event.contact, destination |-> UserIdentifier(up)]
    ELSE IF event.source = "EMAIL"
    THEN [source |-> event.contact, destination |-> event.details.recipient]
    ELSE [source |-> event.contact, destination |-> UserIdentifier(up)]

SuspiciousTags ==
    {"SUSPICIOUS", "FINANCIAL", "URGENT", "INTERNATIONAL", "EXTENDED_COMM", "SPAM"}

\* suspicious_events = [e for e in timeline if e['forensic_tag'] in suspicious_tags]
SuspiciousEvents(tl) == SelectSeq(tl, LAMBDA e : e.forensic_tag \in SuspiciousTags)

\* contact_suspicion: the ends of the suspicious events other than the user,
\* each with the number of times it was counted
ContactSuspicion(events, up) ==
    LET ends == [i \in 1..Len(events) |-> get_communication_details(events[i], up)]
        parties == ({ends[i].source : i \in 1..Len(events)}
                    \cup {ends[i].destination : i \in 1..Len(events)})
                   \ {UserIdentifier(up)}
    IN  [c \in parties |->
            Cardinality({i \in 1..Len(events) : ends[i].source = c})
            + Cardinality({i \in 1..Len(events) : ends[i].destination = c})]

\* contact_suspicion.most_common(1)[0][1]
TopContactCount(suspicion) ==
    CHOOSE k \in {suspicion[c] : c \in DOMAIN suspicion} :
        \A c \in DOMAIN suspicion : suspicion[c] <= k

\* Factor 1: Number of suspicious events
VolumeFactor(suspicious_count, total_events) ==
    IF 10 * suspicious_count > 3 * total_events
    THEN <<"High volume of suspicious communications (>"
              \o Percent1(suspicious_count, total_events) \o "%)", 30>>
    ELSE IF 10 * suspicious_count > total_events
    THEN <<"Moderate volume of suspicious communications (>"
              \o Percent1(suspicious_count, total_events) \o "%)", 20>>
    ELSE IF 100 * suspicious_count > 5 * total_events
    THEN <<"Some suspicious communications (>"
              \o Percent1(suspicious_count, total_events) \o "%)", 10>>
    ELSE <<"Low volume of suspicious communications", 5>>

\* Factor 2: High-risk categories
HighRiskFactor(events) ==
    LET high_risk_events ==
            Cardinality({i \in 1..Len(events) :
                            events[i].forensic_tag \in {"SUSPICIOUS", "FINANCIAL"}})
    IN  IF high_risk_events > 10
        THEN <<"Multiple high-risk communications (" \o IntToStr(high_risk_events)
                  \o ")", 25>>
        ELSE IF high_risk_events > 5
        THEN <<"Several high-risk communications (" \o IntToStr(high_risk_events)
                  \o ")", 15>>
        ELSE IF high_risk_events > 0
        THEN <<"Some high-risk communications (" \o IntToStr(high_risk_events)
                  \o ")", 5>>
        ELSE <<"No high-risk communications detected", 0>>

\* Factor 3: Time patterns
LateNightFactor(events) ==
    LET late_night ==
            Cardinality({i \in 1..Len(events) : Hour(events[i].timestamp) \in 0..5})
    IN  IF 10 * late_night > 3 * Len(events)
        THEN <<"High late-night suspicious activity ("
                  \o Percent1(late_night, Len(events)) \o "%)", 20>>
        ELSE IF 10 * late_night > Len(events)
        THEN <<"Moderate late-night suspicious activity ("
                  \o Percent1(late_night, Len(events)) \o "%)", 10>>
        ELSE <<"Normal time distribution for suspicious communications", 0>>

\* A concentration factor that scores 30 for a dominant contact.
ConcentrationFactor_Uncapped(events, up) ==
    LET suspicion == ContactSuspicion(events, up)
    IN  IF DOMAIN suspicion = {} THEN <<"No suspicious contacts identified", 0>>
        ELSE IF 2 * TopContactCount(suspicion) > Len(events)
        THEN <<"High concentration with single contact ("
                  \o Percent1(TopContactCount(suspicion), Len(events)) \o "%)", 30>>
        ELSE IF 10 * TopContactCount(suspicion) > 3 * Len(events)
        THEN <<"Moderate concentration with contacts ("
                  \o Percent1(TopContactCount(suspicion), Len(events)) \o "%)", 15>>
        ELSE <<"Diverse suspicious contacts", 5>>

\* Factor 4: Contact concentration
ConcentrationFactor(events, up) ==
    LET suspicion == ContactSuspicion(events, up)
    IN  IF DOMAIN suspicion = {} THEN <<"No suspicious contacts identified", 0>>
        ELSE IF 2 * TopContactCount(suspicion) > Len(events)
        THEN <<"High concentration with single contact ("
                  \o Percent1(TopContactCount(suspicion), Len(events)) \o "%)", 25>>
        ELSE IF 10 * TopContactCount(suspicion) > 3 * Len(events)
        THEN <<"Moderate concentration with contacts ("
                  \o Percent1(TopContactCount(suspicion), Len(events)) \o "%)", 15>>
        ELSE <<"Diverse suspicious contacts", 5>>

\* risk_factors, in the order the factors are appended
RiskFactors(tl, up) ==
    LET events == SuspiciousEvents(tl)
    IN  <<VolumeFactor(Len(events), Len(tl)), HighRiskFactor(events),
          LateNightFactor(events), ConcentrationFactor(events, up)>>

\* max_risk_score: 30 + 25 + 20 + 25
FactorMaxima == <<30, 25, 20, 25>>

\* min((total_risk_score / max_risk_score) * 100, 100), in thousandths
FinalRiskScore(factors) ==
    LET total_risk_score == factors[1][2] + factors[2][2] + factors[3][2] + factors[4][2]
        max_risk_score == FactorMaxima[1] + FactorMaxima[2] + FactorMaxima[3]
                          + FactorMaxima[4]
        percent == (total_risk_score * 100 * Milli) \div max_risk_score
    IN  IF percent < 100 * Milli THEN percent ELSE 100 * Milli

(***************************************************************************)
(* Specification of the risk assessment: the record lists and the user's   *)
(* phone number are given, and the timeline create_timeline makes of them. *)
(* analyze_data fuses and scores the records; export_forensic_report and   *)
(* suspicious_communications_analysis score the timeline they are given.   *)
(***************************************************************************)
MaxEvents == 11
MaxLate == 3

ScoreUsers == {None, Some("+15550000001")}
\* The event create_timeline builds for a record of the kind at the hour.
EventTemplate ==
    [k \in ScoreKinds, h \in ScoreHours, up \in ScoreUsers, unknown \in BOOLEAN |->
        LET rec == KindRecord(k, DateTime(Noon.day, h * 3600, 0), unknown)
        IN  IF KindSource(k, unknown) = "CALL" THEN CallEvent(rec, up)
            ELSE IF KindSource(k, unknown) = "EMAIL" THEN EmailEvent(rec, up)
            ELSE SmsEvent(rec, up)]

\* A plan lists kinds with their numbers of events; the events after those
\* are routine.
RECURSIVE KindAt(_, _)
KindAt(plan, j) ==
    IF plan = <<>> THEN "routine"
    ELSE IF j <= plan[1][2] THEN plan[1][1]
    ELSE KindAt(Tail(plan), j - plan[1][2])

QuietPlan == <<>>
SuspiciousPlan(k) == << <<"suspicious", k>> >>
FinancialPlan == << <<"financial", 11>> >>
CallsPlan == << <<"international", 4>>, <<"extended", 3>> >>
FullPlan == << <<"financial", 11>>, <<"suspicious", 6>>, <<"international", 4>>,
               <<"extended", 3>> >>

\* Record j of profile p. The first p.late records are at 2 h, the others at
\* p.hour; the records are ten seconds apart on one day ("rapid", the calls,
\* whose timestamps differ by whole minutes, a minute apart), whole weeks
\* apart ("weekly"), weeks and a minute apart ("spaced") or all at one
\* moment ("tied"); they start on a Monday or on a Saturday. The contacts
\* are one number each, one number for all, the user's number, or the sender
\* "Unknown" of emails next to one number for all calls.
ProfileRecord(p, j) ==
    LET kind == KindAt(p.plan, j)
        unknown == p.contacts = "unknown"
        source == KindSource(kind, unknown)
        h == IF j <= p.late THEN 2 ELSE p.hour
        \* Saturday 2024-03-09 or Monday 2024-03-04
        day == (IF p.weekend THEN 738954 ELSE 738949)
               + (IF p.gap \in {"rapid", "tied"} THEN 0 ELSE 7 * (j - 1))
        sec == h * 3600 + (IF p.gap = "rapid" THEN (IF source = "CALL" THEN 60 * j ELSE 10 * j)
                           ELSE IF p.gap = "spaced" THEN 60 * j ELSE 0)
        seq == 1 + Cardinality({i \in 1..(j - 1) :
                                   KindSource(KindAt(p.plan, i), unknown) = source})
        contact == IF p.contacts = "unique" THEN "+1555" \o ZeroPad(IntToStr(j), 7)
                   ELSE IF p.contacts = "user" THEN "+15550000001"
                   ELSE "+15550000002"
        rec == [KindRecord(kind, DateTime(day, sec, 0), unknown) EXCEPT
                   !.id = RecordId(source, seq)]
    IN  [source |-> source, hour |-> h, kind |-> kind,
         record |-> IF source = "EMAIL" THEN rec ELSE [rec EXCEPT !.contact = contact]]

\* The records of profile p with their sources, kinds and hours.
ProfileRecords(p) == [j \in 1..p.n |-> ProfileRecord(p, j)]

\* The records of one source, in their order.
ProfileRecordsOf(all, source) ==
    LET of == SelectSeq(all, LAMBDA r : r.source = source)
    IN  [i \in 1..Len(of) |-> of[i].record]

\* The event create_timeline builds for a record of profile p: the tag and
\* the reasons of a record depend on its texts, its call details and its
\* hour, which are those of the template.
ProfileEvent(p, r) ==
    [EventTemplate[r.kind, r.hour, p.up, p.contacts = "unknown"] EXCEPT
        !.id = r.record.id,
        !.timestamp = r.record.timestamp,
        !.contact = IF r.source = "EMAIL" THEN r.record.sender ELSE r.record.contact]

\* create_timeline of the records of profile p.
ProfileTimeline(p, all) ==
    LET Of(source) == SelectSeq(all, LAMBDA r : r.source = source)
        ordered == Of("SMS") \o Of("CALL") \o Of("EMAIL")
    IN  SortByTimestamp([i \in 1..Len(ordered) |-> ProfileEvent(p, ordered[i])])

ScoreProfiles ==
    [n : {0} \cup ((MinEvents - 1)..MaxEvents), late : 0..MaxLate, hour : {12, 20},
     weekend : BOOLEAN, gap : {"rapid", "weekly", "spaced"},
     contacts : {"unique", "same", "unknown"},
     plan : {QuietPlan, SuspiciousPlan(6), FinancialPlan, CallsPlan}, up : ScoreUsers]
    \cup
    \* 100 events of which 40 are tagged SUSPICIOUS, and 25 events that meet
    \* every condition
    {[n |-> 100, late |-> 0, hour |-> 12, weekend |-> FALSE, gap |-> "spaced",
      contacts |-> "unique", plan |-> SuspiciousPlan(40), up |-> None],
     [n |-> 25, late |-> 25, hour |-> 20, weekend |-> TRUE, gap |-> "rapid",
      contacts |-> "unknown", plan |-> FullPlan, up |-> Some("+15550000001")]}
    \cup
    \* ten events of the known user of which two (20%) or one are at 12 h
    {[n |-> MinEvents, late |-> l, hour |-> 12, weekend |-> FALSE, gap |-> "spaced",
      contacts |-> "unique", plan |-> QuietPlan, up |-> Some("+15550000001")] :
        l \in {MinEvents - 2, MinEvents - 1}}
    \cup
    \* 25 events of which 1, 2 or 5 are tagged SUSPICIOUS, and 25 events of
    \* which one is an international call from the user's own number
    {[n |-> 25, late |-> l, hour |-> 12, weekend |-> FALSE, gap |-> "spaced",
      contacts |-> "unique", plan |-> SuspiciousPlan(k), up |-> None] :
        l \in {0, 1}, k \in {1, 2, 5}}
    \cup
    {[n |-> 25, late |-> 0, hour |-> 12, weekend |-> FALSE, gap |-> "spaced",
      contacts |-> "user", plan |-> << <<"international", 1>> >>,
      up |-> Some("+15550000001")]}
    \cup
    \* seven calls and three SMS at one moment
    {[n |-> MinEvents, late |-> 0, hour |-> 12, weekend |-> FALSE, gap |-> "tied",
      contacts |-> "same", plan |-> CallsPlan, up |-> None]}

\* The record lists of profile p, whose records are all, and the timeline
\* create_timeline makes of them.
ProfileState(p, all) ==
    /\ timeline = ProfileTimeline(p, all)
    /\ sms_data = ProfileRecordsOf(all, "SMS")
    /\ call_data = ProfileRecordsOf(all, "CALL")
    /\ email_data = ProfileRecordsOf(all, "EMAIL")
    /\ user_phone = p.up

InitScore ==
    /\ pc = "score"
    /\ \E p \in ScoreProfiles : ProfileState(p, ProfileRecords(p))
    /\ csv_file = <<>>
    /\ flags = <<>> /\ risk_score = <<>>
    /\ risk_factors = <<>> /\ final_risk_score = <<>>
    /\ contact_counts = <<>> /\ contact_details = <<>>
    /\ PhoneIdle /\ ClassifyIdle /\ TimestampIdle

\* What analyze_data leaves of the contacts res, of the timeline tl that it
\* has built and of the flags fl of that timeline: the score is computed
\* when there are flags, and reported as 0 when there are none.
AnalysisResults(res, tl, fl) ==
    /\ contact_counts' = res.counts
    /\ contact_details' = res.details
    /\ flags' = fl
    /\ risk_score' = IF fl # <<>> THEN SimpleScore(fl) ELSE 0
    /\ timeline' = ScoredTimeline(tl)

\* "Suspicious patterns with detailed explanations"
AnalyzeTimeline(res, tl) ==
    AnalysisResults(res, tl, detect_suspicious_patterns_with_details(tl, user_phone))

\* timeline = analyze_data(sms_data, call_data, email_data, user_phone): the
\* function returns [] when there is no record; else it aggregates the
\* contacts, builds its timeline of the records and scores it.
AnalyzeData ==
    /\ pc = "score"
    /\ IF TotalRecords = 0
       THEN /\ timeline' = <<>>
            /\ UNCHANGED <<contactVars, flags, risk_score>>
       ELSE AnalyzeTimeline(extract_contacts(sms_data, call_data, email_data),
                            create_timeline(sms_data, call_data, email_data, user_phone))
    /\ pc' = "analyzed"
    /\ UNCHANGED <<dataVars, user_phone, phoneVars, classifyVars, timestampVars,
                   risk_factors, final_risk_score>>

\* What export_forensic_report reports of the contacts res of the records
\* ("Contact Analysis") and of the flags fl of the timeline it was given
\* ("Risk Assessment").
ReportResults(res, fl) ==
    /\ contact_counts' = res.counts
    /\ contact_details' = res.details
    /\ flags' = fl
    /\ risk_score' = SimpleScore(fl)
    /\ timeline' = ScoredTimeline(timeline)

\* export_forensic_report(timeline, sms_data, call_data, email_data,
\* user_phone): the function returns at once when the timeline is empty; else
\* it aggregates the contacts of the records and scores the timeline.
ExportForensicReport ==
    /\ pc = "score"
    /\ IF timeline = <<>> THEN UNCHANGED <<timeline, contactVars, flags, risk_score>>
       ELSE ReportResults(extract_contacts(sms_data, call_data, email_data),
                          detect_suspicious_patterns_with_details(timeline, user_phone))
    /\ pc' = "exported"
    /\ UNCHANGED <<dataVars, user_phone, phoneVars, classifyVars, timestampVars,
                   risk_factors, final_risk_score>>

\* suspicious_communications_analysis: nothing is assessed for an empty
\* timeline or when no event carries a suspicious tag; otherwise the four
\* factors are scored and the scorer is run for the additional anomalies.
SuspiciousCommunicationsAnalysis ==
    /\ pc = "score"
    /\ IF timeline = <<>> \/ SuspiciousEvents(timeline) = <<>>
       THEN UNCHANGED <<timeline, scoreVars>>
       ELSE LET factors == RiskFactors(timeline, user_phone)
            IN  /\ risk_factors' = factors
                /\ final_risk_score' = Some(FinalRiskScore(factors))
                /\ flags' = detect_suspicious_patterns_with_details(timeline, user_phone)
                /\ timeline' = ScoredTimeline(timeline)
                /\ UNCHANGED risk_score
    /\ pc' = "assessed"
    /\ UNCHANGED <<dataVars, user_phone, contactVars, phoneVars, classifyVars, timestampVars>>

NextScore == AnalyzeData \/ ExportForensicReport \/ SuspiciousCommunicationsAnalysis

SpecScore == InitScore /\ [][NextScore]_vars

(***************************************************************************)
(* Specification of the stage functions called on given record lists:      *)
(* create_timeline on lists of at most one record each, the empty lists    *)
(* included, then detect_suspicious_patterns_with_details on its result.   *)
(***************************************************************************)
InitFuse ==
    /\ pc = "identified"
    /\ sms_data \in {<<>>} \cup
          {<<SmsRecord(RecordId("SMS", 1), r.timestamp, r.contact, r.direction,
                       r.message)>> : r \in SmsPool}
    /\ call_data \in {<<>>} \cup
          {<<CallRecord(RecordId("CALL", 1), r.timestamp, r.contact, r.duration, r.type,
                        r.call_details)>> : r \in CallPool}
    /\ email_data \in {<<>>} \cup
          {<<EmailRecord(RecordId("EMAIL", 1), r.timestamp, r.sender, r.recipient,
                         r.subject, r.body)>> : r \in EmailPool}
    /\ user_phone \in ScoreUsers
    /\ csv_file = <<>> /\ timeline = <<>>
    /\ contact_counts = <<>> /\ contact_details = <<>>
    /\ flags = <<>> /\ risk_score = <<>>
    /\ risk_factors = <<>> /\ final_risk_score = <<>>
    /\ PhoneIdle /\ ClassifyIdle /\ TimestampIdle

\* flags = detect_suspicious_patterns_with_details(timeline, user_phone)
DetectSuspiciousPatterns ==
    /\ pc = "fused"
    /\ flags' = detect_suspicious_patterns_with_details(timeline, user_phone)
    /\ timeline' = ScoredTimeline(timeline)
    /\ pc' = "scored"
    /\ UNCHANGED <<dataVars, user_phone, contactVars, phoneVars, classifyVars, timestampVars,
                   risk_score, risk_factors, final_risk_score>>

NextFuse == CreateTimeline \/ DetectSuspiciousPatterns

SpecFuse == InitFuse /\ [][NextFuse]_vars

(***************************************************************************)
(* Claims about the risk assessment.                                       *)
(***************************************************************************)
Scored == pc \in {"analyzed", "exported"}

\* The beginnings of the ten labels, in the order of the checks.
FlagLabels == <<
    "High late-night activity", "Rapid-fire communications", "High unknown contacts",
    "Financial-related communications", "Suspicious keyword communications",
    "International communications", "Extended communications", "High weekend activity",
    "High concentration with single contact", "Low business hours activity" >>

FlagNumber(f) == CHOOSE k \in 1..10 : StartsWith(f[1], FlagLabels[k])

HasFlag(k) == \E i \in 1..Len(flags) : FlagNumber(flags[i]) = k

HourShare(lo, hi) ==
    Cardinality({i \in 1..Len(timeline) : lo <= Hour(timeline[i].timestamp)
                                           /\ Hour(timeline[i].timestamp) <= hi})

\* The time elapsed from a to b in whole seconds, days included.
ElapsedSeconds(a, b) ==
    (b.day - a.day) * 86400 + (b.sec - a.sec) - (IF b.us < a.us THEN 1 ELSE 0)

\* The conditions of the scorer's table on the scored timeline.
Satisfied(k) ==
    LET n == Len(timeline)
        share(S) == Cardinality(S)
        all == 1..n
    IN  CASE k = 1 -> 100 * HourShare(0, 5) > 20 * n
          [] k = 2 -> 100 * share({i \in 2..n :
                                     ElapsedSeconds(timeline[i - 1].timestamp,
                                                    timeline[i].timestamp) < 30}) > 5 * n
          [] k = 3 -> 100 * share({i \in all :
                                     Contains(StrLower(timeline[i].contact), "unknown")})
                      > 10 * n
          [] k = 4 -> TagCount(timeline, "FINANCIAL") > 10
          [] k = 5 -> TagCount(timeline, "SUSPICIOUS") > 5
          [] k = 6 -> TagCount(timeline, "INTERNATIONAL") > 3
          [] k = 7 -> TagCount(timeline, "EXTENDED_COMM") > 2
          [] k = 8 -> 100 * share({i \in all : Weekday(timeline[i].timestamp) \in {5, 6}})
                      > 40 * n
          [] k = 9 -> \E c \in {timeline[i].contact : i \in all} :
                         100 * share({i \in all : timeline[i].contact = c}) > 30 * n
          [] k = 10 -> user_phone # None /\ 100 * HourShare(9, 17) < 20 * n

\* C3: the flag list the scorer returns holds exactly one (label, explanation)
\* pair for each of the ten table conditions that is satisfied, none for a
\* condition that is not, in the table's order 1..10.
C3_OneFlagPerSatisfiedCondition ==
    Scored =>
        /\ \A k \in 1..10 :
              Cardinality({i \in 1..Len(flags) : FlagNumber(flags[i]) = k})
                  = IF Satisfied(k) THEN 1 ELSE 0
        /\ \A i, j \in 1..Len(flags) :
              i < j => FlagNumber(flags[i]) < FlagNumber(flags[j])

\* C4 as stated: exactly 20% of the events at hours 0..5 never produces
\* flag 1, and more than 20% produces it for any timeline.
C4_StrictThresholdAnyTimeline ==
    Scored =>
        /\ 100 * HourShare(0, 5) = 20 * Len(timeline) => ~HasFlag(1)
        /\ 100 * HourShare(0, 5) > 20 * Len(timeline) => HasFlag(1)

\* C4: exactly 20% of the events at hours 0..5 never produces flag 1, and
\* more than 20% produces it for any timeline of at least ten events.
C4_StrictThreshold ==
    Scored =>
        /\ 100 * HourShare(0, 5) = 20 * Len(timeline) => ~HasFlag(1)
        /\ (Len(timeline) >= 10 /\ 100 * HourShare(0, 5) > 20 * Len(timeline))
              => HasFlag(1)

\* C4 witness: ten events, two of them at hours 0..5, were scored and flag 1
\* was not produced.
C4_Witness ==
    /\ Scored
    /\ Len(timeline) = 10 /\ HourShare(0, 5) = 2
    /\ ~HasFlag(1)

\* C5: the scorer returns at most 10 flags and the simple score, computed
\* when the timeline has events, is min(10 * number of flags, 100).
C5_SimpleScore ==
    Scored =>
        /\ Len(flags) <= 10
        /\ timeline # <<>> =>
              risk_score = IF 10 * Len(flags) <= 100 THEN 10 * Len(flags) ELSE 100

\* C5 witness: 100 events of which 40 are tagged SUSPICIOUS were scored, only
\* flag 5 was produced and the simple score is 10.
C5_Witness ==
    /\ Scored
    /\ Len(timeline) = 100 /\ TagCount(timeline, "SUSPICIOUS") = 40
    /\ Len(flags) = 1 /\ HasFlag(5)
    /\ risk_score = 10

(***************************************************************************)
(* datetime construction and arithmetic                                    *)
(***************************************************************************)
\* int(s) of a text of digits
RECURSIVE StrToInt(_)
StrToInt(s) ==
    IF s = "" THEN 0
    ELSE 10 * StrToInt(SubSeq(s, 1, Len(s) - 1))
         + (CHOOSE d \in 0..9 : CharAt(DigitChars, d + 1) = CharAt(s, Len(s)))

IsLeap(y) == y % 4 = 0 /\ (y % 100 # 0 \/ y % 400 = 0)

DaysInMonth(y, m) ==
    IF m = 2 THEN (IF IsLeap(y) THEN 29 ELSE 28)
    ELSE IF m \in {4, 6, 9, 11} THEN 30 ELSE 31

\* date(y, m, d).toordinal()
ToOrdinal(y, m, d) ==
    LET RECURSIVE Before(_)
        Before(k) == IF k = 0 THEN 0 ELSE DaysInMonth(y, k) + Before(k - 1)
    IN  365 * (y - 1) + ((y - 1) \div 4) - ((y - 1) \div 100) + ((y - 1) \div 400)
        + Before(m - 1) + d

\* datetime(year, month, day, hour, minute, second, microsecond) accepts the
\* fields; it raises ValueError otherwise.
ValidDateTime(y, m, d, H, M, S) ==
    /\ 1 <= y /\ y <= 9999 /\ 1 <= m /\ m <= 12
    /\ 1 <= d /\ d <= DaysInMonth(y, m)
    /\ 0 <= H /\ H <= 23 /\ 0 <= M /\ M <= 59 /\ 0 <= S /\ S <= 59

MakeDateTime(y, m, d, H, M, S, us) == DateTime(ToOrdinal(y, m, d), 3600 * H + 60 * M + S, us)

\* ts + timedelta(days=days, seconds=secs), secs of either sign
TimeShift(ts, days, secs) ==
    LET t == ts.sec + secs
        carry == IF t >= 0 THEN t \div 86400 ELSE 0 - ((86399 - t) \div 86400)
    IN  DateTime(ts.day + days + carry, t - 86400 * carry, ts.us)

(***************************************************************************)
(* datetime.strptime and parse_timestamp                                   *)
(***************************************************************************)
\* parse_timestamp.formats
TimestampFormats == <<
    "%Y-%m-%d %H:%M:%S", "%Y/%m/%d %H:%M:%S", "%d-%m-%Y %H:%M:%S", "%d/%m/%Y %H:%M:%S",
    "%m/%d/%Y %H:%M:%S", "%Y-%m-%d %H:%M", "%Y/%m/%d %H:%M", "%d-%m-%Y %H:%M",
    "%d/%m/%Y %H:%M", "%m/%d/%Y %H:%M", "%Y%m%d %H:%M:%S", "%Y-%m-%d", "%Y/%m/%d",
    "%d-%m-%Y", "%d/%m/%Y", "%m/%d/%Y", "%Y-%m-%dT%H:%M:%S", "%Y-%m-%dT%H:%M:%SZ",
    "%Y-%m-%dT%H:%M:%S.%f", "%Y-%m-%dT%H:%M:%S.%fZ" >>

\* The directives and literal characters of a format, in order.
RECURSIVE FormatTokens(_)
FormatTokens(fmt) ==
    IF fmt = "" THEN <<>>
    ELSE IF CharAt(fmt, 1) = "%"
         THEN <<SubSeq(fmt, 1, 2)>> \o FormatTokens(SubSeq(fmt, 3, Len(fmt)))
    ELSE <<CharAt(fmt, 1)>> \o FormatTokens(SubSeq(fmt, 2, Len(fmt)))

\* The regular expression strptime compiles for a token (_strptime.TimeRE,
\* re.IGNORECASE); a blank is \s+, and n bounds the run it can match.
TokenElement(tok, n) ==
    LET d19 == Digit \ {"0"}
        d05 == {"0", "1", "2", "3", "4", "5"}
    IN  CASE tok = "%Y" -> Rep(Digit, 4, 4)
          [] tok = "%m" -> << <<{"1"}, {"0", "1", "2"}>>, <<{"0"}, d19>>, <<d19>> >>
          [] tok = "%d" -> << <<{"3"}, {"0", "1"}>>, <<{"1", "2"}, Digit>>, <<{"0"}, d19>>,
                              <<d19>>, <<{" "}, d19>> >>
          [] tok = "%H" -> << <<{"2"}, {"0", "1", "2", "3"}>>, <<{"0", "1"}, Digit>>,
                              <<Digit>> >>
          [] tok = "%M" -> << <<d05, Digit>>, <<Digit>> >>
          [] tok = "%S" -> << <<{"6"}, {"0", "1"}>>, <<d05, Digit>>, <<Digit>> >>
          [] tok = "%f" -> Rep(Digit, 1, 6)
          [] tok = " " -> Rep(Whitespace, 1, IF n < 1 THEN 1 ELSE n)
          [] OTHER -> One({LowerChar(tok), UpperChar(tok)})

\* datetime.strptime(str, fmt): Some(datetime), or None for ValueError.
Strptime(str, fmt) ==
    LET toks == FormatTokens(fmt)
        blanks == Cardinality({i \in 1..Len(str) : CharAt(str, i) \in Whitespace})
        pat == [k \in 1..Len(toks) |-> TokenElement(toks[k], blanks)]
        m == MatchFrom(str, 1, pat, 1)
        group(tok) == LET k == CHOOSE i \in 1..Len(toks) : toks[i] = tok
                          from == 1 + SeqSum(SubSeq(m.lens, 1, k - 1))
                      IN  SubSeq(str, from, from + m.lens[k] - 1)
        has(tok) == \E i \in 1..Len(toks) : toks[i] = tok
        field(tok) == IF has(tok) THEN StrToInt(KeepChars(group(tok), Digit)) ELSE 0
        \* s += "0" * (6 - len(s))
        fraction == IF has("%f")
                    THEN StrToInt(group("%f") \o SubSeq("000000", 1, 6 - Len(group("%f"))))
                    ELSE 0
    IN  IF ~m.ok \/ SeqSum(m.lens) # Len(str) THEN None
        ELSE IF ~ValidDateTime(field("%Y"), field("%m"), field("%d"),
                               field("%H"), field("%M"), field("%S")) THEN None
        ELSE Some(MakeDateTime(field("%Y"), field("%m"), field("%d"),
                               field("%H"), field("%M"), field("%S"), fraction))

DateSep == {"-", "/"}

\* date_patterns and time_patterns
DatePatterns == <<
    << Rep(Digit, 4, 4), One(DateSep), Rep(Digit, 1, 2), One(DateSep), Rep(Digit, 1, 2) >>,
    << Rep(Digit, 1, 2), One(DateSep), Rep(Digit, 1, 2), One(DateSep), Rep(Digit, 4, 4) >>,
    << Rep(Digit, 1, 2), One(DateSep), Rep(Digit, 1, 2), One(DateSep), Rep(Digit, 2, 2) >> >>

TimePatterns == <<
    << Rep(Digit, 1, 2), One({":"}), Rep(Digit, 2, 2), One({":"}), Rep(Digit, 2, 2) >>,
    << Rep(Digit, 1, 2), One({":"}), Rep(Digit, 2, 2) >> >>

\* Index of the first pattern of the list that re.search finds, 0 when none.
FirstPattern(pats, str) ==
    LET hits == {p \in 1..Len(pats) : ReSearch(pats[p], str).start # 0}
    IN  IF hits = {} THEN 0 ELSE CHOOSE p \in hits : \A q \in hits : p <= q

\* match.groups() of a match of one of the patterns above: the digit runs
MatchGroups(str, m) ==
    [g \in 1..((Len(m.lens) + 1) \div 2) |->
        LET from == m.start + SeqSum(SubSeq(m.lens, 1, 2 * g - 2))
        IN  SubSeq(str, from, from + m.lens[2 * g - 1] - 1)]

\* A fallback that reads a date with the year last as month-day-year.
RegexTimestamp_MonthFirst(str) ==
    LET dp == FirstPattern(DatePatterns, str)
        tp == FirstPattern(TimePatterns, str)
        g == MatchGroups(str, ReSearch(DatePatterns[dp], str))
        t == MatchGroups(str, ReSearch(TimePatterns[tp], str))
        yearFirst == Len(g[1]) = 4
        year == IF yearFirst THEN StrToInt(g[1])
                ELSE IF Len(g[3]) = 4 THEN StrToInt(g[3]) ELSE StrToInt("20" \o g[3])
        month == IF yearFirst THEN StrToInt(g[2]) ELSE StrToInt(g[1])
        day == IF yearFirst THEN StrToInt(g[3]) ELSE StrToInt(g[2])
        hour == IF tp = 0 THEN 0 ELSE StrToInt(t[1])
        minute == IF tp = 0 THEN 0 ELSE StrToInt(t[2])
        second == IF tp = 1 THEN StrToInt(t[3]) ELSE 0
    IN  IF dp = 0 THEN None
        ELSE IF ~ValidDateTime(year, month, day, hour, minute, second) THEN None
        ELSE Some(MakeDateTime(year, month, day, hour, minute, second, 0))

\* "Try to extract date from string using regex" (str is the stripped text)
RegexTimestamp(str) ==
    LET dp == FirstPattern(DatePatterns, str)
        tp == FirstPattern(TimePatterns, str)
        g == MatchGroups(str, ReSearch(DatePatterns[dp], str))
        t == MatchGroups(str, ReSearch(TimePatterns[tp], str))
        yearFirst == Len(g[1]) = 4
        year == IF yearFirst THEN StrToInt(g[1])
                ELSE IF Len(g[3]) = 4 THEN StrToInt(g[3]) ELSE StrToInt("20" \o g[3])
        month == StrToInt(g[2])
        day == IF yearFirst THEN StrToInt(g[3]) ELSE StrToInt(g[1])
        hour == IF tp = 0 THEN 0 ELSE StrToInt(t[1])
        minute == IF tp = 0 THEN 0 ELSE StrToInt(t[2])
        second == IF tp = 1 THEN StrToInt(t[3]) ELSE 0
    IN  IF dp = 0 THEN None
        ELSE IF ~ValidDateTime(year, month, day, hour, minute, second) THEN None
        ELSE Some(MakeDateTime(year, month, day, hour, minute, second, 0))

\* The loop over the formats from format f on, then the regex fallback.
RECURSIVE TryFormats(_, _)
TryFormats(str, f) ==
    IF f > Len(TimestampFormats) THEN RegexTimestamp(str)
    ELSE LET r == Strptime(str, TimestampFormats[f])
         IN  IF r # None THEN r ELSE TryFormats(str, f + 1)

\* parse_timestamp(timestamp_str); the argument is None or Some(text).
parse_timestamp(timestamp_str) ==
    IF timestamp_str = None \/ timestamp_str = Some("") THEN None
    ELSE TryFormats(Strip(timestamp_str[1]), 1)

(***************************************************************************)
(* Specification of parse_timestamp: the text is drawn from TimestampTexts *)
(* (or is None), the call returns the datetime or None.                    *)
(***************************************************************************)
TimestampTexts ==
    LET prefixes == {"", "on "}
        dates == {"2024-03-04", "2024/3/4", "04-03-2024", "4/3/2024", "04-03-24",
                  "4/3/24", "2024-02-30", "29-02-2024", "29/02/2023", "03/25/2024",
                  "2024-13-01", "1-2-345", "04.03.2024", ""}
        times == {"", " 10:20:30", " 7:05", " 25:00", "T10:20:30+05:30", " at noon"}
    IN  {a \o b \o c : a \in prefixes, b \in dates, c \in times}

InitTimestamp ==
    /\ pc = "timestamp"
    /\ ts_text \in {None} \cup {Some(t) : t \in TimestampTexts}
    /\ ts_value = None
    /\ PhoneIdle /\ ClassifyIdle /\ DataIdle /\ PipelineIdle

ParseTimestamp ==
    /\ pc = "timestamp"
    /\ ts_value' = parse_timestamp(ts_text)
    /\ pc' = "timestamp_done"
    /\ UNCHANGED <<ts_text, phoneVars, classifyVars, dataVars, user_phone, timeline,
                   contactVars, scoreVars>>

NextTimestamp == ParseTimestamp

SpecTimestamp == InitTimestamp /\ [][NextTimestamp]_vars

(***************************************************************************)
(* Raw rows and the random source                                          *)
(*                                                                         *)
(* A row of csv.DictReader is the sequence of its cells in column order;   *)
(* the value of a cell is Some(text), or None where the line was short.    *)
(* A draw stands for the values np.random returns while one row is         *)
(* normalised: every randint and choice returns the low or the high end of *)
(* its range, random() a value above 0.5 or not.                           *)
(***************************************************************************)
Cell(col, val) == [col |-> col, val |-> val]

\* not value
Falsy(val) == val = None \/ val = Some("")

\* row.get(col, default)
Get(row, col, default) ==
    IF \E i \in 1..Len(row) : row[i].col = col
    THEN row[CHOOSE i \in 1..Len(row) : row[i].col = col].val
    ELSE Some(default)

\* The column loop for one field: a column whose lower-cased name contains a
\* keyword gives its value to the field while the field is still falsy.
Resolve(row, keywords) ==
    LET RECURSIVE Scan(_, _)
        Scan(i, cur) ==
            IF i > Len(row) THEN cur
            ELSE IF /\ row[i].col # ""
                    /\ Falsy(cur)
                    /\ LET col_lower == StrLower(row[i].col)
                       IN  \E k \in keywords : Contains(col_lower, k)
                 THEN Scan(i + 1, row[i].val)
            ELSE Scan(i + 1, cur)
    IN  Scan(1, None)

Draws == [low : BOOLEAN, coin : BOOLEAN]

\* randint with the upper end included.
RandInt_Inclusive(draw, lo, hi) == IF draw.low THEN lo ELSE hi

\* np.random.randint(lo, hi)
RandInt(draw, lo, hi) == IF draw.low THEN lo ELSE hi - 1
\* np.random.choice(seq)
Choice(draw, seq) == IF draw.low THEN seq[1] ELSE seq[Len(seq)]
\* 'OUTGOING' if np.random.random() > 0.5 else 'INCOMING'
RandomDirection(draw) == IF draw.coin THEN "OUTGOING" ELSE "INCOMING"

\* f"+1{np.random.randint(200, 999):03}{np.random.randint(1000, 9999):04}"
SynthPhone(draw) ==
    "+1" \o ZeroPad(IntToStr(RandInt(draw, 200, 999)), 3)
         \o ZeroPad(IntToStr(RandInt(draw, 1000, 9999)), 4)

\* datetime.now() while the files are loaded: 2024-06-15 10:30:15.250000
Now == MakeDateTime(2024, 6, 15, 10, 30, 15, 250000)

(***************************************************************************)
(* load_sms_data                                                           *)
(***************************************************************************)
\* "Determine direction"
NormalizeDirection(direction, draw) ==
    IF Falsy(direction) THEN RandomDirection(draw)
    ELSE LET direction_lower == StrLower(direction[1])
         IN  IF \E k \in {"incoming", "received", "in", "recv"} :
                    Contains(direction_lower, k)
             THEN "INCOMING"
             ELSE IF \E k \in {"outgoing", "sent", "out", "send"} :
                        Contains(direction_lower, k)
                  THEN "OUTGOING"
             ELSE RandomDirection(draw)

\* The keyword sets of the four fields of an SMS row.
SmsContactKeywords == {"phone", "number", "address", "contact", "from"}
SmsMessageKeywords == {"message", "body", "content", "text"}
SmsTimestampKeywords == {"date", "time", "timestamp", "received", "sent"}
SmsDirectionKeywords == {"type", "direction", "status"}

\* The record of row i made from the four resolved values (raw_data, which
\* nothing reads, is left out).
SmsFieldsRecord(contact, message, timestamp_str, direction, i, draw) ==
    LET parsed == parse_timestamp(timestamp_str)
    IN  SmsRecord(
            RecordId("SMS", i),
            IF parsed # None THEN parsed[1]
            ELSE TimeShift(Now, 0 - RandInt(draw, 1, 90),
                           0 - (3600 * RandInt(draw, 0, 24) + 60 * RandInt(draw, 0, 60))),
            IF Falsy(contact) \/ Strip(contact[1]) = "" THEN SynthPhone(draw)
            ELSE extract_phone_number(contact[1], SynthPhone(draw)),
            NormalizeDirection(direction, draw),
            IF Falsy(message) \/ Strip(message[1]) = ""
            THEN "SMS message " \o IntToStr(i) ELSE Strip(message[1]))

\* The record of row i.
SmsRowRecord(row, i, draw) ==
    SmsFieldsRecord(Resolve(row, SmsContactKeywords), Resolve(row, SmsMessageKeywords),
                    Resolve(row, SmsTimestampKeywords), Resolve(row, SmsDirectionKeywords),
                    i, draw)

\* sms_file = 'SMS-Data.csv'
sms_file == "SMS-Data.csv"

\* preview_lines = [next(f) for _ in range(5)]
PreviewLines == 5

\* The loader returns [] when the directory has no file of its name. A file
\* of fewer lines than the preview reads ends the preview with StopIteration,
\* and the handler returns [].
load_sms_data(file, draws) ==
    IF file.name # sms_file THEN <<>>
    ELSE IF file.lines < PreviewLines THEN <<>>
    ELSE [i \in 1..Len(file.rows) |-> SmsRowRecord(file.rows[i], i, draws[i])]

(***************************************************************************)
(* load_call_data                                                          *)
(***************************************************************************)
\* float(value) for the texts of the rows below, digits with an optional
\* fraction of at most three places, in thousandths; ok is FALSE where float
\* raises (None, or a text that is no number).
ParseFloat(val) ==
    LET t == IF val = None THEN "" ELSE Strip(val[1])
        dots == {i \in 1..Len(t) : CharAt(t, i) = "."}
        dot == IF dots = {} THEN Len(t) + 1 ELSE CHOOSE i \in dots : TRUE
        whole == SubSeq(t, 1, dot - 1)
        frac == SubSeq(t, dot + 1, Len(t))
    IN  IF /\ Cardinality(dots) <= 1
           /\ AllDigits(whole) /\ AllDigits(frac) /\ Len(whole) + Len(frac) >= 1
        THEN [ok |-> TRUE,
              value |-> Milli * StrToInt(whole)
                        + StrToInt(SubSeq(frac \o "000", 1, 3))]
        ELSE [ok |-> FALSE, value |-> 0]

\* int(value) for the texts of the rows below; ok is FALSE where int raises.
ParseInt(val) ==
    LET t == IF val = None THEN "" ELSE Strip(val[1])
    IN  IF t # "" /\ AllDigits(t) THEN [ok |-> TRUE, value |-> StrToInt(t)]
        ELSE [ok |-> FALSE, value |-> 0]

\* The columns converted while call_details is built, which nothing reads.
OtherIntColumns ==
    {"Day Calls", "Eve Calls", "Night Calls", "Intl Calls", "VMail Message",
     "Account Length"}
OtherFloatColumns == {"Day Charge", "Eve Charge", "Night Charge", "Intl Charge"}

\* Row i raises outside the try of the minutes: .strip() or .upper() of None,
\* or a count or charge that int or float rejects.
CallRowRaises(row) ==
    \/ Get(row, "Phone Number", "") = None
    \/ Get(row, "Churn", "FALSE") = None
    \/ ~ParseInt(Get(row, "CustServ Calls", "0")).ok
    \/ \E c \in OtherIntColumns : ~ParseInt(Get(row, c, "0")).ok
    \/ \E c \in OtherFloatColumns : ~ParseFloat(Get(row, c, "0")).ok

\* The record of row i, for a row that does not raise.
CallRowRecord(row, i, draw) ==
    LET phone_number == Strip(Get(row, "Phone Number", "")[1])
        day == ParseFloat(Get(row, "Day Mins", "0"))
        eve == ParseFloat(Get(row, "Eve Mins", "0"))
        night == ParseFloat(Get(row, "Night Mins", "0"))
        intl == ParseFloat(Get(row, "Intl Mins", "0"))
        mins_ok == day.ok /\ eve.ok /\ night.ok /\ intl.ok
        total_duration == IF mins_ok THEN TotalDuration(day.value, eve.value, night.value)
                          ELSE RandInt(draw, 30, 1800)
        intl_mins == IF mins_ok THEN intl.value ELSE 0
        churn == StrUpper(Get(row, "Churn", "FALSE")[1])
        custserv_calls == ParseInt(Get(row, "CustServ Calls", "0")).value
    IN  CallRecord(
            RecordId("CALL", i),
            \* start_date + timedelta(days, hours, minutes), start_date = now - 90 days
            TimeShift(TimeShift(Now, 0 - 90, 0), RandInt(draw, 0, 90),
                      3600 * RandInt(draw, 0, 24) + 60 * RandInt(draw, 0, 60)),
            IF phone_number = "" THEN SynthPhone(draw)
            ELSE extract_phone_number(phone_number, SynthPhone(draw)),
            total_duration,
            CallType(total_duration, churn, custserv_calls, intl_mins),
            CallDetails(IF mins_ok THEN day.value ELSE 0, IF mins_ok THEN eve.value ELSE 0,
                        IF mins_ok THEN night.value ELSE 0, intl_mins, churn,
                        custserv_calls))

\* cdr_file = 'CDR-Call-Details.csv'
cdr_file == "CDR-Call-Details.csv"

\* The loader returns [] when the directory has no file of its name. An
\* exception of any row leaves the loop, and the handler returns [].
load_call_data(file, draws) ==
    IF file.name # cdr_file THEN <<>>
    ELSE IF \E i \in 1..Len(file.rows) : CallRowRaises(file.rows[i]) THEN <<>>
    ELSE [i \in 1..Len(file.rows) |-> CallRowRecord(file.rows[i], i, draws[i])]

(***************************************************************************)
(* load_email_data                                                         *)
(***************************************************************************)
EmailDomains == <<"gmail.com", "yahoo.com", "hotmail.com", "company.com", "outlook.com">>

\* value.strip(), or the generated text when the value is missing or blank
StripOr(val, generated) ==
    IF Falsy(val) \/ Strip(val[1]) = "" THEN generated ELSE Strip(val[1])

\* The keyword sets of the five fields of an email row.
EmailSenderKeywords == {"from", "sender", "author"}
EmailRecipientKeywords == {"to", "recipient", "receiver"}
EmailSubjectKeywords == {"subject", "title", "topic"}
EmailBodyKeywords == {"body", "content", "message", "text"}
EmailTimestampKeywords == {"date", "time", "timestamp", "sent", "received"}

\* The record of row i made from the five resolved values.
EmailFieldsRecord(sender, recipient, subject, body, timestamp_str, i, draw) ==
    LET parsed == parse_timestamp(timestamp_str)
    IN  EmailRecord(
            RecordId("EMAIL", i),
            \* start_date + timedelta(days, hours), start_date = now - 180 days
            IF parsed # None THEN parsed[1]
            ELSE TimeShift(TimeShift(Now, 0 - 180, 0), RandInt(draw, 0, 180),
                           3600 * RandInt(draw, 0, 24)),
            StripOr(sender, "user" \o IntToStr(RandInt(draw, 1, 1000)) \o "@"
                            \o Choice(draw, EmailDomains)),
            StripOr(recipient, "recipient" \o IntToStr(RandInt(draw, 1, 1000)) \o "@"
                               \o Choice(draw, EmailDomains)),
            StripOr(subject, Choice(draw, <<"Meeting Request", "Urgent: Response Needed">>)
                             \o " - " \o IntToStr(RandInt(draw, 1, 100))),
            StripOr(body, Choice(draw, <<"Please find attached the requested document.",
                                         "This is in reference to our earlier conversation.">>)))

\* The record of row i.
EmailRowRecord(row, i, draw) ==
    EmailFieldsRecord(Resolve(row, EmailSenderKeywords), Resolve(row, EmailRecipientKeywords),
                      Resolve(row, EmailSubjectKeywords), Resolve(row, EmailBodyKeywords),
                      Resolve(row, EmailTimestampKeywords), i, draw)

(***************************************************************************)
(* Specification of the loaders: the directory holds one CSV file, under   *)
(* the name that the generator of its kind gives it; the file has a header *)
(* line, the rows below (a row has a cell for every column of the header,  *)
(* None where its line was short) and blank lines, which csv.DictReader    *)
(* skips; or the directory holds an entry of the name of the email file    *)
(* that cannot be opened. data() calls the three loaders in turn.          *)
(***************************************************************************)
MaxRows == 2

SmsRow(phone, direction, message, date_time) ==
    << Cell("Phone Number", phone), Cell("Direction", direction),
       Cell("Message", message), Cell("Date/Time", date_time) >>

\* Rows of columns that generate_sms.py writes, with their fields varied.
SmsRows ==
    {SmsRow(Some("(555) 123-4567"), Some(d), Some("hello there"),
            Some("2024-03-04 12:00:00")) :
        d \in {"OUTGOING", "sent", "Received"}}
    \cup {SmsRow(Some(""), Some("sent"), Some(" "), t) :
            t \in {Some("13/03/2024 09:30"), Some("on 2024-3-4 at 7:05"), Some("n/a")}}
    \cup {SmsRow(Some("+44 20 7946 0958"), None, None, None)}
    \cup {SmsRow(Some("(555) 123-4567"), Some("sent"), Some(msg), Some("2024-03-04 12:00:00"))
             \o << Cell("Message_ID", Some("MSG_000001")) >> : msg \in {"", "hi"}}

CallRow(phone, day_mins, custserv, churn, date_time) ==
    << Cell("Phone Number", phone), Cell("Day Mins", day_mins), Cell("Intl Mins", Some("0")),
       Cell("Day Calls", Some("3")), Cell("Day Charge", Some("1.5")),
       Cell("VMail Message", Some("0")), Cell("CustServ Calls", custserv),
       Cell("Churn", churn), Cell("Date/Time", date_time) >>

\* A row with the four minutes columns, the service calls and the churn.
CallRowMins(day_mins, eve_mins, night_mins, intl_mins, custserv, churn) ==
    << Cell("Phone Number", Some("555-123-4567")), Cell("Day Mins", Some(day_mins)),
       Cell("Eve Mins", Some(eve_mins)), Cell("Night Mins", Some(night_mins)),
       Cell("Intl Mins", Some(intl_mins)), Cell("CustServ Calls", Some(custserv)),
       Cell("Churn", Some(churn)) >>

\* Rows of columns that generate_cdr.py writes, with their fields varied.
CallRows ==
    {CallRow(Some("555-123-4567"), Some(m), Some("1"), Some("False"),
             Some("2024-03-04 12:00:00")) : m \in {"1.5", "abc"}}
    \cup {CallRow(Some(""), Some("2.5"), c, Some("TRUE"), Some("2024-03-04 12:00:00")) :
            c \in {Some("4"), Some("n/a")}}
    \cup {CallRow(Some("441234567890"), Some("0.25"), None, None, None)}
    \cup {CallRowMins("11.5", "0", "0", "0", "3", "True"),
          CallRowMins("11.5", "0", "0", "12.5", "2", "TRUE"),
          CallRowMins("0.5", "0.25", "0.125", "12.5", "0", "False"),
          CallRowMins("0", "0.01", "0.09", "0", "0", "False"),
          CallRowMins("4.1", "0", "0", "0", "0", "False")}

EmailRow(from, to, date, subject, body) ==
    << Cell("From", from), Cell("To", to), Cell("Date", date), Cell("Subject", subject),
       Cell("Body", body) >>

\* Rows of columns that generate_email.py writes, with their fields varied.
EmailRows ==
    {EmailRow(Some("bob@x.com"), Some("amy@y.org"), Some(t), Some("Invoice"),
              Some("Payment overdue")) :
        t \in {"2024-03-04 12:00:00", "2024-03-04T12:00:00.5Z", "2024-02-30", "4/3/24 17:45"}}
    \cup {EmailRow(Some(" "), Some(""), Some(""), Some(""), Some("")),
          EmailRow(Some("noreply@z.ru"), None, None, None, None)}
    \cup {EmailRow(Some("bob@x.com"), Some(to), Some("2024-03-04 12:00:00"), Some("Invoice"),
                   Some("Payment overdue"))
             \o << Cell("In_Reply_To", Some("MSG_000001")) >> : to \in {"", "amy@y.org"}}

\* The column names of a row, which are those of the header of its file.
Columns(row) == [i \in 1..Len(row) |-> row[i].col]

\* The sequences of at most MaxRows rows of the pool with the header.
RowSeqs(pool, header) ==
    UNION {[1..n -> {row \in pool : Columns(row) = header}] : n \in 0..MaxRows}

\* OUTPUT_FILE of generate_sms.py, generate_cdr.py and generate_email.py
OutputFile(kind) ==
    CASE kind = "SMS" -> "SMS-Data.csv"
      [] kind = "CALL" -> "CDR-Call-Details.csv"
      [] kind = "EMAIL" -> "email_data.csv"

\* A file: the header line, the rows and pad blank lines.
CsvFile(kind, header, rows, pad) ==
    [kind |-> kind, name |-> OutputFile(kind), header |-> header,
     lines |-> 1 + Len(rows) + pad, rows |-> rows, readable |-> TRUE]

\* An entry of the name of the email file that open() refuses (a directory,
\* or a file the user may not read).
UnreadableFile ==
    [kind |-> "EMAIL", name |-> OutputFile("EMAIL"), header |-> <<>>, lines |-> 0,
     rows |-> <<>>, readable |-> FALSE]

\* The files of a kind: for every header of the pool, the sequences of its
\* rows.
FilesOf(kind, pool, pads) ==
    {CsvFile(kind, header, rows, pad) :
        <<header, rows>> \in UNION {{<<h, q>> : q \in RowSeqs(pool, h)} :
                                      h \in {Columns(row) : row \in pool}},
        pad \in pads}

\* The SMS files come with no blank line and with four, which matters to the
\* preview of load_sms_data.
CsvFiles ==
    FilesOf("SMS", SmsRows, {0, 4}) \cup FilesOf("CALL", CallRows, {0})
    \cup FilesOf("EMAIL", EmailRows, {0}) \cup {UnreadableFile}

\* possible_files = ['emails.csv', 'email_data.csv', 'emails.csv', 'email_messages.csv']
possible_files == {"emails.csv", "email_data.csv", "email_messages.csv"}

email_keywords == {"email", "mail", "message", "inbox", "sent"}

\* The first line of a file: the column names with commas between them (the
\* line of the first half of the names, a comma, the line of the others).
RECURSIVE FirstLine(_)
FirstLine(header) ==
    IF header = <<>> THEN ""
    ELSE IF Len(header) = 1 THEN header[1]
    ELSE LET half == Len(header) \div 2
         IN  FirstLine(SubSeq(header, 1, half)) \o ","
             \o FirstLine(SubSeq(header, half + 1, Len(header)))

\* first_line.lower(): the line of the lower-cased column names
LowerLine(header) == FirstLine([i \in 1..Len(header) |-> StrLower(header[i])])

\* first_line.lower() of the headers of the rows above, computed once.
FirstLines ==
    [header \in {Columns(row) : row \in SmsRows \cup CallRows \cup EmailRows} |->
        LowerLine(header)]

FirstLineLower(header) ==
    IF header \in DOMAIN FirstLines THEN FirstLines[header] ELSE LowerLine(header)

\* The file load_email_data reads: the file of one of the possible names,
\* or else a CSV file whose first line, lower-cased, contains a keyword.
IsEmailFile(file) ==
    \/ file.name \in possible_files
    \/ \E keyword \in email_keywords : Contains(FirstLineLower(file.header), keyword)

\* for i in range(1000)
SampleEmails == 1000

\* generate_sample_email_data(): the records made up when the email file
\* cannot be read.
generate_sample_email_data(draws) ==
    [i \in 1..SampleEmails |->
        EmailRecord(
            RecordId("SAMPLE_EMAIL", i),
            TimeShift(TimeShift(Now, 0 - 180, 0), RandInt(draws[i], 0, 180),
                      3600 * RandInt(draws[i], 0, 24)),
            "user" \o IntToStr(RandInt(draws[i], 1, 100)) \o "@"
                \o Choice(draws[i], EmailDomains),
            "contact" \o IntToStr(RandInt(draws[i], 1, 100)) \o "@"
                \o Choice(draws[i], EmailDomains),
            Choice(draws[i], <<"Meeting Request", "System Maintenance">>) \o " - Ref: "
                \o IntToStr(RandInt(draws[i], 1000, 9999)),
            Choice(draws[i],
                   <<"Please find attached the requested document for your review.",
                     "Attached are the meeting minutes from yesterday's conference call.">>))]

\* The loader returns [] when it finds no file to read, and the made-up
\* records when opening the file raises. No conversion of a row raises:
\* every row of a file that is read gives its record.
load_email_data(file, draws) ==
    IF ~IsEmailFile(file) THEN <<>>
    ELSE IF ~file.readable THEN generate_sample_email_data(draws)
    ELSE [i \in 1..Len(file.rows) |-> EmailRowRecord(file.rows[i], i, draws[i])]

\* The draws of one load: every call of the generator gives the low end of
\* its range, or every call the high end.
SameDraw(file, draw) ==
    [i \in 1..(IF file.readable THEN Len(file.rows) ELSE SampleEmails) |-> draw]

InitLoad ==
    /\ pc = "file"
    /\ csv_file \in CsvFiles
    /\ sms_data = <<>> /\ call_data = <<>> /\ email_data = <<>>
    /\ PipelineIdle /\ PhoneIdle /\ ClassifyIdle /\ TimestampIdle

\* data: sms_data = load_sms_data()
LoadSmsData ==
    /\ pc = "file"
    /\ \E draw \in Draws :
          sms_data' = load_sms_data(csv_file, SameDraw(csv_file, draw))
    /\ pc' = "sms_loaded"
    /\ UNCHANGED <<csv_file, call_data, email_data, user_phone, timeline, contactVars,
                   scoreVars, phoneVars, classifyVars,
                   timestampVars>>

\* data: call_data = load_call_data()
LoadCallData ==
    /\ pc = "sms_loaded"
    /\ \E draw \in Draws :
          call_data' = load_call_data(csv_file, SameDraw(csv_file, draw))
    /\ pc' = "call_loaded"
    /\ UNCHANGED <<csv_file, sms_data, email_data, user_phone, timeline, contactVars,
                   scoreVars, phoneVars, classifyVars,
                   timestampVars>>

\* data: email_data = load_email_data()
LoadEmailData ==
    /\ pc = "call_loaded"
    /\ \E draw \in Draws :
          email_data' = load_email_data(csv_file, SameDraw(csv_file, draw))
    /\ pc' = "loaded"
    /\ UNCHANGED <<csv_file, sms_data, call_data, user_phone, timeline, contactVars,
                   scoreVars, phoneVars, classifyVars,
                   timestampVars>>

NextLoad == LoadSmsData \/ LoadCallData \/ LoadEmailData

SpecLoad == InitLoad /\ [][NextLoad]_vars

(***************************************************************************)
(* Claims about the loaders.                                               *)
(***************************************************************************)
\* The records the loader of the kind of csv_file returned.
LoadedData ==
    CASE csv_file.kind = "SMS" -> sms_data
      [] csv_file.kind = "CALL" -> call_data
      [] csv_file.kind = "EMAIL" -> email_data

\* The text of the direction column of an SMS row, lower-cased ("" when the
\* row has none).
DirectionWord(row) ==
    LET direction == Resolve(row, {"type", "direction", "status"})
    IN  IF direction = None THEN "" ELSE StrLower(direction[1])

\* The parsed value of the timestamp column of a row (None when the row has
\* no such value or parse_timestamp rejects it).
SourceTimestamp(row) ==
    parse_timestamp(Resolve(row, {"date", "time", "timestamp", "received", "sent"}))

\* C8: an SMS row whose direction is the word outgoing or sent, in any letter
\* case, is normalised to OUTGOING, one whose direction is incoming or
\* received to INCOMING, and every normalised direction is one of the two.
C8_DirectionOfWord ==
    (pc = "loaded" /\ csv_file.kind = "SMS") =>
        \A i \in 1..Len(sms_data) :
            LET word == DirectionWord(csv_file.rows[i])
            IN  /\ word \in {"outgoing", "sent"} => sms_data[i].direction = "OUTGOING"
                /\ word \in {"incoming", "received"} => sms_data[i].direction = "INCOMING"
                /\ sms_data[i].direction \in {"INCOMING", "OUTGOING"}

\* C9: the load of a file of N rows returns N records, record i made from
\* row i, whatever the fields of the rows hold.
C9_OneRecordPerRow ==
    pc = "loaded" =>
        /\ Len(LoadedData) = Len(csv_file.rows)
        /\ \A i \in 1..Len(LoadedData) : LoadedData[i].id = RecordId(csv_file.kind, i)

\* C10: the timestamp of a record is the parsed value of the timestamp column
\* of its row whenever that value parses, and no record is without one.
C10_ParsedTimestampKept ==
    pc = "loaded" =>
        \A i \in DOMAIN LoadedData \cap DOMAIN csv_file.rows :
            LET parsed == SourceTimestamp(csv_file.rows[i])
            IN  /\ LoadedData[i].timestamp # None
                /\ parsed # None => LoadedData[i].timestamp = parsed[1]

\* The value of the first column of the row whose lower-cased name contains a
\* keyword of the set (None when no column does).
FirstColumn(row, keywords) ==
    LET matching == {i \in 1..Len(row) :
                        \E k \in keywords : Contains(StrLower(row[i].col), k)}
    IN  IF matching = {} THEN None
        ELSE row[CHOOSE i \in matching : \A j \in matching : i <= j].val

\* C11: every field of a loaded SMS or email record is made from the value of
\* the first column, in the row's column order, whose lower-cased name contains
\* a keyword of the field; no later matching column supplies the field.
C11_FirstMatchingColumn ==
    (pc = "loaded" /\ csv_file.kind \in {"SMS", "EMAIL"}) =>
        \A i \in DOMAIN LoadedData \cap DOMAIN csv_file.rows :
            LET row == csv_file.rows[i]
            IN  \E draw \in Draws :
                    LoadedData[i] =
                        IF csv_file.kind = "SMS"
                        THEN SmsFieldsRecord(FirstColumn(row, SmsContactKeywords),
                                             FirstColumn(row, SmsMessageKeywords),
                                             FirstColumn(row, SmsTimestampKeywords),
                                             FirstColumn(row, SmsDirectionKeywords), i, draw)
                        ELSE EmailFieldsRecord(FirstColumn(row, EmailSenderKeywords),
                                               FirstColumn(row, EmailRecipientKeywords),
                                               FirstColumn(row, EmailSubjectKeywords),
                                               FirstColumn(row, EmailBodyKeywords),
                                               FirstColumn(row, EmailTimestampKeywords),
                                               i, draw)

(***************************************************************************)
(* Claims about find_user_phone_number.                                    *)
(***************************************************************************)
Identified == pc \in {"identified", "fused", "aggregated"}

\* The contacts of the SMS records, then of the call records, in order.
ContactsInOrder ==
    [i \in 1..(Len(sms_data) + Len(call_data)) |->
        IF i <= Len(sms_data) THEN sms_data[i].contact
        ELSE call_data[i - Len(sms_data)].contact]

Occurrences(c) == Cardinality({i \in DOMAIN ContactsInOrder : ContactsInOrder[i] = c})

FirstSeen(c) ==
    CHOOSE i \in DOMAIN ContactsInOrder :
        /\ ContactsInOrder[i] = c
        /\ \A j \in 1..(i - 1) : ContactsInOrder[j] # c

\* user_phone is the address of the set with the most occurrences, the first
\* seen of those with that count, and None exactly when the set is empty.
MostFrequentOf(addresses) ==
    IF addresses = {} THEN user_phone = None
    ELSE /\ user_phone # None
         /\ user_phone[1] \in addresses
         /\ \A d \in addresses :
               \/ Occurrences(d) < Occurrences(user_phone[1])
               \/ /\ Occurrences(d) = Occurrences(user_phone[1])
                  /\ FirstSeen(user_phone[1]) <= FirstSeen(d)

\* C12: find_user_phone_number returns the contact with the most occurrences
\* over all SMS and call records, the first encountered among those of the
\* same count, and None exactly when the records hold no contact.
C12_MostFrequentContact ==
    Identified => MostFrequentOf({c \in Range(ContactsInOrder) : c # ""})

\* C12 witness: two numbers with one occurrence each, of which the one of
\* the SMS record was returned.
C12_Witness ==
    /\ Identified
    /\ Len(sms_data) = 1 /\ Len(call_data) = 1
    /\ sms_data[1].contact = "+12001000"
    /\ call_data[1].contact = "+442079460958"
    /\ user_phone = Some("+12001000")

(***************************************************************************)
(* Further claims about categorize_event_with_reasons.                     *)
(***************************************************************************)
\* C13: a call of the classifier with a source kind other than SMS, CALL or
\* EMAIL returns no tag and no reasons (it is reported as an error instead).
C13_UnknownKindRejected ==
    (pc = "classify_done" /\ source_type \notin {"SMS", "CALL", "EMAIL"}) =>
        category = None /\ reasons = None

(***************************************************************************)
(* Claims about the frame of the stages.                                   *)
(***************************************************************************)
\* C14: the scorer leaves the timeline it is given as it was, the same events
\* in the same order: export_forensic_report and
\* suspicious_communications_analysis pass it the timeline create_timeline
\* has made, and the timeline analyze_data returns after scoring is that
\* timeline too. create_timeline, extract_contacts and the scorer leave the
\* record lists as they were.
C14_StagesKeepTheirInputs ==
    [][pc = "score" => /\ timeline' = timeline
                       /\ UNCHANGED <<sms_data, call_data, email_data>>]_vars

\* The scorer has sorted and flagged a timeline of SMS and call events that
\* have one timestamp, and the timeline is still in the order of
\* create_timeline, the SMS events before the call events.
C14_Witness ==
    /\ pc = "exported"
    /\ Len(timeline) >= MinEvents
    /\ flags # <<>>
    /\ \A i \in 1..Len(timeline) : timeline[i].timestamp = timeline[1].timestamp
    /\ timeline[1].source = "SMS" /\ timeline[Len(timeline)].source = "CALL"
    /\ timeline = create_timeline(sms_data, call_data, email_data, user_phone)

\* suspicious_communications_analysis has assessed the timeline.
Assessed == pc = "assessed"

\* C15: for every timeline with at least one suspicious event the weighted
\* score is computed from four factor scores, the factors lie in 0..30,
\* 0..25, 0..20 and 0..25 in that order, the score is their sum and it lies
\* in 0..100.
C15_WeightedScoreIsSumOfFactors ==
    (Assessed /\ \E i \in 1..Len(timeline) : timeline[i].forensic_tag \in SuspiciousTags)
        =>
        /\ Len(risk_factors) = 4
        /\ \A i \in 1..4 : risk_factors[i][2] \in 0..(<<30, 25, 20, 25>>[i])
        /\ final_risk_score
              = Some(Milli * (risk_factors[1][2] + risk_factors[2][2]
                              + risk_factors[3][2] + risk_factors[4][2]))
        /\ final_risk_score[1] \in 0..(100 * Milli)

\* C15 witness: 25 events of which 24 are suspicious were assessed, every
\* factor has its maximum and the weighted score is 100.
C15_Witness ==
    /\ Assessed
    /\ Len(timeline) = 25 /\ Len(SuspiciousEvents(timeline)) = 24
    /\ \A i \in 1..4 : risk_factors[i][2] = <<30, 25, 20, 25>>[i]
    /\ final_risk_score = Some(100 * Milli)

(***************************************************************************)
(* Claims about the reasons and the routine pass of the classifier.        *)
(***************************************************************************)
\* The reasons of the structural checks on SMS and email records.
StructuralReasons ==
    {"Short message: Message length < 10 characters",
     "Unusual pattern: Contains '\\d{4,}'",
     "Unusual pattern: Contains '[a-z]\\d{3,}'",
     "Unusual pattern: Contains '\\d{3,}[a-z]'",
     "Anonymous sender", "Suspicious sender domain"}

\* The call came back from the routine pass.
RoutinePassed == reasons \in {<<"Routine communication">>, <<"Normal communication">>}

\* C16: for an SMS or email record with collected reasons, each category of
\* the source's keyword table that has a keyword in the lowercased text gives
\* exactly one reason "<Category>: Contains '<keyword>'" naming the first such
\* keyword of its list, a category without one gives none, these reasons
\* come first in the table's category order, and every reason after them is
\* a structural-check reason.
C16_OneReasonPerCategory ==
    (pc = "classify_done" /\ source_type \in {"SMS", "EMAIL"} /\ ~RoutinePassed) =>
        LET table == IF source_type = "SMS" THEN SmsKeywords ELSE EmailKeywords
            txt == IF source_type = "SMS" THEN StrLower(record.message)
                   ELSE StrLower(record.subject) \o " " \o StrLower(record.body)
            found == {c \in 1..Len(table) :
                        \E k \in 1..Len(table[c].keywords) :
                            Contains(txt, table[c].keywords[k])}
            rank(c) == Cardinality({d \in found : d <= c})
        IN  /\ Len(reasons) >= Cardinality(found)
            /\ \A c \in found :
                  \E k \in 1..Len(table[c].keywords) :
                      /\ Contains(txt, table[c].keywords[k])
                      /\ \A j \in 1..(k - 1) : ~Contains(txt, table[c].keywords[j])
                      /\ reasons[rank(c)]
                            = table[c].category \o ": Contains '"
                              \o table[c].keywords[k] \o "'"
            /\ \A i \in (Cardinality(found) + 1)..Len(reasons) :
                  reasons[i] \in StructuralReasons

\* C16 witness: an SMS text with three Financial keywords, an Urgent and two
\* Coordination keywords and a run of five digits was classified.
C16_Witness ==
    /\ pc = "classify_done" /\ source_type = "SMS"
    /\ record.message
          = "Please wire the payment via bitcoin now meet me where we park ref 12345"
    /\ reasons = <<"Financial: Contains 'payment'", "Urgent: Contains 'now'",
                   "Coordination: Contains 'meet'",
                   "Unusual pattern: Contains '\\d{4,}'">>

\* A keyword of the routine category occurs in the text.
HasRoutineKeyword(cat, txt) ==
    \E c \in 1..Len(RoutineKeywords) :
        /\ RoutineKeywords[c].category = cat
        /\ \E k \in 1..Len(RoutineKeywords[c].keywords) :
              Contains(txt, RoutineKeywords[c].keywords[k])

\* C17: when no reason was collected the tag is BUSINESS if a BUSINESS
\* keyword occurs in the lowercased text the first pass searched, else
\* PERSONAL if a PERSONAL keyword occurs, else ROUTINE; when a reason was
\* collected the tag is none of the three, whatever routine keywords the
\* text holds.
C17_RoutinePassOnlyWithoutReasons ==
    pc = "classify_done" =>
        LET txt == IF source_type = "SMS" THEN StrLower(record.message)
                   ELSE IF source_type = "EMAIL"
                        THEN StrLower(record.subject) \o " " \o StrLower(record.body)
                   ELSE ""
        IN  /\ CollectedReasons(record, source_type) = <<>> =>
                  category = Some(IF HasRoutineKeyword("BUSINESS", txt) THEN "BUSINESS"
                                  ELSE IF HasRoutineKeyword("PERSONAL", txt) THEN "PERSONAL"
                                  ELSE "ROUTINE")
            /\ CollectedReasons(record, source_type) # <<>> =>
                  /\ category \notin {Some("BUSINESS"), Some("PERSONAL"), Some("ROUTINE")}
                  /\ ~RoutinePassed

\* C17 witness: an SMS text with BUSINESS and PERSONAL keywords and no reason
\* was classified BUSINESS.
C17_Witness ==
    /\ pc = "classify_done" /\ source_type = "SMS"
    /\ record.message = "the project report for work and family"
    /\ HasRoutineKeyword("PERSONAL", record.message)
    /\ category = Some("BUSINESS") /\ reasons = <<"Routine communication">>

(***************************************************************************)
(* Claims about the stage functions on empty inputs.                       *)
(***************************************************************************)
NoRecords == sms_data = <<>> /\ call_data = <<>> /\ email_data = <<>>

\* C18: create_timeline called with three empty record lists returns the
\* empty timeline, and the scorer called on an empty timeline returns no
\* flags, so that the simple score min(10 * number of flags, 100) is 0.
C18_EmptyInputs ==
    /\ (pc \in {"fused", "scored"} /\ NoRecords) => timeline = <<>>
    /\ (pc = "scored" /\ timeline = <<>>) => flags = <<>> /\ 10 * Len(flags) = 0

\* C18 witness: the three empty lists were fused and the empty timeline was
\* scored.
C18_Witness ==
    /\ pc = "scored" /\ NoRecords
    /\ timeline = <<>> /\ flags = <<>>

(***************************************************************************)
(* Claims about single checks of the scorer.                               *)
(***************************************************************************)
\* The adjacent pairs of the scored timeline less than 30 seconds of full
\* elapsed time apart.
RapidPairs ==
    {i \in 2..Len(timeline) :
        ElapsedSeconds(timeline[i - 1].timestamp, timeline[i].timestamp) < 30}

\* C19: on a timeline of at least ten events, flag 2 is produced exactly when
\* the adjacent pairs of the sorted timeline whose full elapsed time, days
\* included, is under 30 seconds number more than 5% of the events.
C19_RapidFireByFullElapsedTime ==
    (Scored /\ Len(timeline) >= MinEvents) =>
        (HasFlag(2) <=> 100 * Cardinality(RapidPairs) > 5 * Len(timeline))

\* C20 as stated: flag 10 is never produced without a subject address; with
\* one it is produced exactly when fewer than 20% of the events have their
\* hour in 9..17, and not at exactly 20%.
C20_LowBusinessHoursAnyTimeline ==
    Scored =>
        /\ user_phone = None => ~HasFlag(10)
        /\ user_phone # None =>
              /\ HasFlag(10) <=> 100 * HourShare(9, 17) < 20 * Len(timeline)
              /\ 100 * HourShare(9, 17) = 20 * Len(timeline) => ~HasFlag(10)

\* C20: flag 10 is never produced without a subject address; with one, on a
\* timeline of at least ten events, it is produced exactly when fewer than
\* 20% of the events have their hour in 9..17; it is not produced at exactly
\* 20%, nor for a timeline of fewer than ten events.
C20_LowBusinessHours ==
    Scored =>
        /\ user_phone = None => ~HasFlag(10)
        /\ (user_phone # None /\ Len(timeline) >= 10) =>
              (HasFlag(10) <=> 100 * HourShare(9, 17) < 20 * Len(timeline))
        /\ (user_phone # None /\ 100 * HourShare(9, 17) = 20 * Len(timeline))
              => ~HasFlag(10)
        /\ Len(timeline) < 10 => ~HasFlag(10)

\* C20 witness: ten events of a known user, two of them at hours 9..17, were
\* scored and flag 10 was not produced.
C20_Witness ==
    /\ Scored /\ user_phone # None
    /\ Len(timeline) = 10 /\ HourShare(9, 17) = 2
    /\ ~HasFlag(10)

(***************************************************************************)
(* Claims about the statistics of extract_contacts.                        *)
(***************************************************************************)
\* The positions of the records of the list whose trimmed field is a.
RecordsOf(data, field, a) == {i \in 1..Len(data) : Strip(data[i][field]) = a}

\* The largest timestamp of the records at the positions, None for no record.
LastSeen(data, at) ==
    IF at = {} THEN None
    ELSE Some(data[CHOOSE i \in at :
                      \A j \in at : ~TsLess(data[i].timestamp, data[j].timestamp)].timestamp)

\* C21: for every address a of the returned details map, sms_count and
\* call_count are the numbers of SMS and call records whose trimmed contact
\* is a, total_call_duration is the sum of the durations of those calls,
\* sent_email_count and received_email_count are the numbers of emails whose
\* trimmed sender and recipient is a, each last-seen value is the largest
\* timestamp of a's records of its kind, and a's total count is the sum of
\* the four counts; the comparison of addresses is by exact text, so
\* addresses that differ in letter case have separate entries.
C21_ContactStatistics ==
    pc = "aggregated" =>
        /\ DOMAIN contact_counts = DOMAIN contact_details
        /\ \A a \in DOMAIN contact_details :
              LET d == contact_details[a]
                  sms == RecordsOf(sms_data, "contact", a)
                  calls == RecordsOf(call_data, "contact", a)
                  sent == RecordsOf(email_data, "sender", a)
                  received == RecordsOf(email_data, "recipient", a)
              IN  /\ d.sms_count = Cardinality(sms)
                  /\ d.call_count = Cardinality(calls)
                  /\ d.total_call_duration
                        = SeqSum([i \in 1..Len(call_data) |->
                                    IF i \in calls THEN call_data[i].duration ELSE 0])
                  /\ d.sent_email_count = Cardinality(sent)
                  /\ d.received_email_count = Cardinality(received)
                  /\ d.last_contact = LastSeen(sms_data, sms)
                  /\ d.last_call = LastSeen(call_data, calls)
                  /\ d.last_email_sent = LastSeen(email_data, sent)
                  /\ d.last_email_received = LastSeen(email_data, received)
                  /\ contact_counts[a] = Cardinality(sms) + Cardinality(calls)
                                          + Cardinality(sent) + Cardinality(received)

\* C21 witness: two emails from Bob@x.com to bob@x.com, the later one first,
\* were aggregated into two entries, each with the later timestamp.
C21_Witness ==
    /\ pc = "aggregated"
    /\ Len(email_data) = 2
    /\ \A i \in 1..2 : email_data[i].sender = "Bob@x.com"
                         /\ email_data[i].recipient = "bob@x.com"
    /\ email_data[1].timestamp = Noon /\ email_data[2].timestamp = LateNight
    /\ contact_details["Bob@x.com"].sent_email_count = 2
    /\ contact_details["Bob@x.com"].received_email_count = 0
    /\ contact_details["Bob@x.com"].last_email_sent = Some(Noon)
    /\ contact_details["bob@x.com"].received_email_count = 2
    /\ contact_details["bob@x.com"].last_email_received = Some(Noon)

(***************************************************************************)
(* Claims about parse_timestamp.                                           *)
(***************************************************************************)
\* One of the explicit formats parses the stripped text.
ExplicitFormatMatches(str) ==
    \E f \in 1..Len(TimestampFormats) : Strptime(str, TimestampFormats[f]) # None

\* C22: when no explicit format matches, the first date pattern found gives
\* year-month-day if its first group has 4 digits, day-month-year if its last
\* group has 4 digits, and day-month-year with year 2000 + the number if its
\* last group has 2 digits; without a time pattern the time is 00:00:00; the
\* call returns None when no date pattern is found or the numbers are not a
\* valid date.
C22_RegexFallback ==
    (/\ pc = "timestamp_done" /\ ts_text \notin {None, Some("")}
     /\ ~ExplicitFormatMatches(Strip(ts_text[1]))) =>
        LET str == Strip(ts_text[1])
            dp == FirstPattern(DatePatterns, str)
            g == MatchGroups(str, ReSearch(DatePatterns[dp], str))
            ymd == IF Len(g[1]) = 4
                   THEN <<StrToInt(g[1]), StrToInt(g[2]), StrToInt(g[3])>>
                   ELSE IF Len(g[3]) = 4
                   THEN <<StrToInt(g[3]), StrToInt(g[2]), StrToInt(g[1])>>
                   ELSE <<2000 + StrToInt(g[3]), StrToInt(g[2]), StrToInt(g[1])>>
            validDate == /\ ymd[1] \in 1..9999 /\ ymd[2] \in 1..12
                         /\ ymd[3] \in 1..DaysInMonth(ymd[1], ymd[2])
            noTime == FirstPattern(TimePatterns, str) = 0
        IN  /\ dp = 0 => ts_value = None
            /\ (dp # 0 /\ ~validDate) => ts_value = None
            /\ (dp # 0 /\ validDate /\ noTime) =>
                  ts_value = Some(DateTime(ToOrdinal(ymd[1], ymd[2], ymd[3]), 0, 0))
            /\ (dp # 0 /\ validDate /\ ~noTime) =>
                  \/ ts_value = None
                  \/ ts_value[1].day = ToOrdinal(ymd[1], ymd[2], ymd[3])

\* C22 witness: "on 04-03-24", which no explicit format parses and which has
\* no time, was read as 2024-03-04 00:00:00.
C22_Witness ==
    /\ pc = "timestamp_done"
    /\ ts_text = Some("on 04-03-24")
    /\ ~ExplicitFormatMatches("on 04-03-24")
    /\ ts_value = Some(DateTime(ToOrdinal(2024, 3, 4), 0, 0))

(***************************************************************************)
(* Claims about the fallback of extract_phone_number.                      *)
(***************************************************************************)
\* The digits of the stripped text, joined: ''.join(re.findall(r'\d+', text)).
CombinedDigits(t) == KeepChars(Strip(t), Digit)

\* C23: when no pattern of the cascade matches a non-empty text, the call
\* returns "+1" followed by the first 10 to 15 of the text's digits whenever
\* the text has that many digits, and a synthesized number only when the text
\* has no digit to use.
C23_FallbackUsesFirstDigits ==
    (/\ pc = "phone_done" /\ text # "" /\ FirstPhonePattern(Strip(text)) = 0) =>
        LET combined == CombinedDigits(text)
        IN  /\ Len(combined) >= 10 =>
                  \E k \in 10..15 :
                      /\ k <= Len(combined)
                      /\ number = Some("+1" \o SubSeq(combined, 1, k))
            /\ Len(combined) = 0 => number[1] \in SynthPhones

(***************************************************************************)
(* Claims about the timestamps the loaders synthesize.                     *)
(***************************************************************************)
\* ts is not after the moment of the load and at most days days before it.
InWindow(ts, days) ==
    /\ ~TsLess(Now, ts)
    /\ ~TsLess(ts, TimeShift(Now, 0 - days, 0))

\* The rows of the loaded file whose timestamp text parse_timestamp rejects.
UnparsedRows(keywords) ==
    {i \in 1..Len(csv_file.rows) :
        parse_timestamp(Resolve(csv_file.rows[i], keywords)) = None}

\* C24: every synthesized timestamp is in the window that ends at the moment
\* of the load: at most 90 days back for a call record (all of which are
\* synthesized), at most 180 days back for an SMS or email record whose row
\* gave no parseable timestamp or that was made up because the file could
\* not be read, and never after the moment of the load.
C24_SynthesizedInWindow ==
    pc = "loaded" =>
        /\ \A i \in 1..Len(call_data) : InWindow(call_data[i].timestamp, 90)
        /\ \A i \in 1..Len(sms_data) :
              i \in UnparsedRows(SmsTimestampKeywords) =>
                  InWindow(sms_data[i].timestamp, 180)
        /\ \A i \in 1..Len(email_data) :
              (~csv_file.readable \/ i \in UnparsedRows(EmailTimestampKeywords)) =>
                  InWindow(email_data[i].timestamp, 180)

\* An SMS record and an email record of an unparseable row were given the
\* oldest timestamp the SMS loader and the newest the email loader can
\* synthesize.
SmsSynthesizedOldest ==
    \E i \in 1..Len(sms_data) :
        /\ i \in UnparsedRows(SmsTimestampKeywords)
        /\ sms_data[i].timestamp = TimeShift(Now, 0 - 89, 0 - (23 * 3600 + 59 * 60))
EmailSynthesizedNewest ==
    \E i \in 1..Len(email_data) :
        /\ i \in UnparsedRows(EmailTimestampKeywords)
        /\ email_data[i].timestamp = TimeShift(Now, 0 - 1, 23 * 3600)

\* C24 witness: a call record was given the oldest timestamp the call loader
\* can synthesize, exactly 90 days before the load.
C24_Witness ==
    /\ pc = "loaded"
    /\ \E i \in 1..Len(call_data) :
          call_data[i].timestamp = TimeShift(Now, 0 - 90, 0)

(***************************************************************************)
(* Claims about the scorer's minimum number of events.                     *)
(***************************************************************************)
\* The conditions of the scorer's table that the scored timeline satisfies.
SatisfiedConditions == {k \in 1..10 : Satisfied(k)}

\* C25: a timeline of fewer than 10 events is scored with no flag, whose
\* simple score is 0 (the score reported when the timeline has events),
\* whichever conditions of the table its events satisfy.
C25_FewerThanTenEvents ==
    (Scored /\ Len(timeline) < 10) =>
        /\ flags = <<>>
        /\ SimpleScore(flags) = 0
        /\ timeline # <<>> => risk_score = 0

\* C25 witness: nine events that satisfy at least three conditions of the
\* table were scored with no flag and score 0.
C25_Witness ==
    /\ Scored
    /\ Len(timeline) = 9 /\ Cardinality(SatisfiedConditions) >= 3
    /\ flags = <<>> /\ risk_score = 0

(***************************************************************************)
(* Claims about the tags of the fused timeline.                            *)
(***************************************************************************)
\* The tags of the classifier.
ForensicTags == {"FINANCIAL", "SUSPICIOUS", "URGENT", "INTERNATIONAL", "EXTENDED_COMM",
                 "SPAM", "BUSINESS", "PERSONAL", "ROUTINE"}
RoutineTags == {"BUSINESS", "PERSONAL", "ROUTINE"}

\* The record the event was constructed from.
SourceRecord(e) ==
    IF e.source = "SMS" THEN sms_data[CHOOSE k \in 1..Len(sms_data) : sms_data[k].id = e.id]
    ELSE IF e.source = "CALL"
         THEN call_data[CHOOSE k \in 1..Len(call_data) : call_data[k].id = e.id]
    ELSE email_data[CHOOSE k \in 1..Len(email_data) : email_data[k].id = e.id]

\* A keyword of the table occurs in the text.
TableKeywordIn(table, txt) ==
    \E c \in 1..Len(table) :
        \E k \in 1..Len(table[c].keywords) : Contains(txt, table[c].keywords[k])

\* A keyword rule or a structural rule of the record's source kind matches.
RuleMatched(rec, st) ==
    IF st = "SMS"
    THEN \/ TableKeywordIn(SmsKeywords, StrLower(rec.message))
         \/ Len(rec.message) < 10
         \/ UnusualReason(StrLower(rec.message)) # <<>>
    ELSE IF st = "EMAIL"
    THEN \/ TableKeywordIn(EmailKeywords,
                           StrLower(rec.subject) \o " " \o StrLower(rec.body))
         \/ Contains(StrLower(rec.sender), "anonymous")
         \/ Contains(StrLower(rec.sender), "noreply")
         \/ \E i \in 1..Len(suspicious_domains) :
               Contains(StrLower(rec.sender), suspicious_domains[i])
    ELSE \/ rec.duration <= 5 \/ rec.duration > 3600
         \/ rec.call_details.intl_mins > 5 * Milli
         \/ rec.call_details.churn = "TRUE"
         \/ rec.call_details.custserv_calls > 3
         \/ Hour(rec.timestamp) \in 0..5

\* C26: every event of the fused timeline has at least one reason and one of
\* the nine tags; its tag is BUSINESS, PERSONAL or ROUTINE exactly when no
\* keyword rule and no structural rule matched its record, so an SMS of fewer
\* than 10 characters and a call of at most 5 seconds never get one of the
\* three.
C26_TagsOfTheTimeline ==
    pc \in {"fused", "aggregated"} =>
        \A i \in 1..Len(timeline) :
            LET e == timeline[i]
                rec == SourceRecord(e)
            IN  /\ e.reasons # <<>>
                /\ e.forensic_tag \in ForensicTags
                /\ e.forensic_tag \in RoutineTags <=> ~RuleMatched(rec, e.source)
                /\ (e.source = "SMS" /\ Len(rec.message) < 10)
                      => e.forensic_tag \notin RoutineTags
                /\ (e.source = "CALL" /\ rec.duration <= 5)
                      => e.forensic_tag \notin RoutineTags

\* C26 witness: a timeline was fused from the SMS "hi", which holds a ROUTINE
\* keyword and is tagged SUSPICIOUS for its length, a call of 3 seconds that
\* is not given a routine tag, and the SMS "happy birthday", tagged PERSONAL.
C26_Witness ==
    /\ pc = "fused"
    /\ \E i, j, k \in 1..Len(timeline) :
          /\ timeline[i].source = "SMS" /\ timeline[i].content = "hi"
          /\ timeline[i].forensic_tag = "SUSPICIOUS"
          /\ timeline[j].source = "CALL" /\ timeline[j].details.duration = 3
          /\ timeline[j].forensic_tag \notin RoutineTags
          /\ timeline[k].source = "SMS" /\ timeline[k].content = "happy birthday"
          /\ timeline[k].forensic_tag = "PERSONAL"
          /\ ~RuleMatched(SourceRecord(timeline[k]), "SMS")

(***************************************************************************)
(* Claims about the events of create_timeline.                             *)
(***************************************************************************)
\* The positions of the timeline that hold the event of the record: the
\* record's id, timestamp and source kind, and the classifier's tag and
\* reasons for the record and the kind.
EventsOf(rec, st) ==
    LET res == categorize_event_with_reasons(rec, st)
    IN  {i \in 1..Len(timeline) :
            /\ timeline[i].id = rec.id
            /\ timeline[i].source = st
            /\ timeline[i].timestamp = rec.timestamp
            /\ timeline[i].forensic_tag = res.tag
            /\ timeline[i].reasons = res.reasons}

\* C27: the timeline has as many events as there are SMS, call and email
\* records, and every record has exactly one event with its id, timestamp
\* and source kind and with the tag and the reasons the classifier returns
\* for it.
C27_TimelinePermutation ==
    pc \in {"fused", "aggregated"} =>
        /\ Len(timeline) = Len(sms_data) + Len(call_data) + Len(email_data)
        /\ \A k \in 1..Len(sms_data) : Cardinality(EventsOf(sms_data[k], "SMS")) = 1
        /\ \A k \in 1..Len(call_data) : Cardinality(EventsOf(call_data[k], "CALL")) = 1
        /\ \A k \in 1..Len(email_data) : Cardinality(EventsOf(email_data[k], "EMAIL")) = 1

\* C27 witness: an SMS, a call and an email record were fused into three
\* events, the email's first and the call's last.
C27_Witness ==
    /\ pc = "fused"
    /\ Len(sms_data) = 1 /\ Len(call_data) = 1 /\ Len(email_data) = 1
    /\ Len(timeline) = 3
    /\ EventsOf(email_data[1], "EMAIL") = {1}
    /\ EventsOf(sms_data[1], "SMS") = {2}
    /\ EventsOf(call_data[1], "CALL") = {3}

(***************************************************************************)
(* Specification of the contact normalisation: extract_phone_number called *)
(* on a text, or a loader called on a file.                                *)
(***************************************************************************)
InitContacts == InitPhone \/ InitLoad

NextContacts == NextPhone \/ NextLoad

SpecContacts == InitContacts /\ [][NextContacts]_vars

\* s is "+" followed by one or more decimal digits and nothing else.
PlusDigits(s) ==
    /\ Len(s) >= 2
    /\ CharAt(s, 1) = "+"
    /\ AllDigits(SubSeq(s, 2, Len(s)))

\* C28: every value extract_phone_number returns, for the empty text and for
\* a text without digits too, is "+" followed by one or more decimal digits
\* and nothing else; so the contact of every loaded SMS record and of every
\* loaded call record starts with "+".
C28_PlusAndDigits ==
    /\ pc = "phone_done" => PlusDigits(number[1])
    /\ pc = "loaded" =>
          /\ \A i \in 1..Len(sms_data) : PlusDigits(sms_data[i].contact)
          /\ \A i \in 1..Len(call_data) : PlusDigits(call_data[i].contact)

\* C28 witness: a text without digits was given a synthesized number.
C28_Witness ==
    /\ pc = "phone_done"
    /\ text = "abc"
    /\ number = Some("+12001000")

(***************************************************************************)
(* Claims about the type and the duration of a normalised call.            *)
(***************************************************************************)
\* float(row.get(col, 0)) of the call row, in thousandths.
MinutesOf(row, col) == ParseFloat(Get(row, col, "0"))

\* C29: the type of a loaded call record is MISSED when its duration is at
\* most 5 s, else SHORT_CALL when at most 15 s, else COMPLAINT when churn is
\* TRUE and there are more than 2 customer-service calls, else LONG_CALL when
\* the duration is over 600 s, else INTERNATIONAL when the international
\* minutes are over 10, else ANSWERED; and the duration of a row whose minutes
\* are numbers is (day + evening + night minutes) * 60 cut to an integer,
\* the international minutes left out: 5 s for 0.01 + 0.09 minutes are a
\* second short of it, and 245 s for 4.1 minutes.
C29_CallTypePriority ==
    (pc = "loaded" /\ csv_file.kind = "CALL") =>
        \A i \in 1..Len(call_data) :
            LET r == call_data[i]
                row == csv_file.rows[i]
                day == MinutesOf(row, "Day Mins")
                eve == MinutesOf(row, "Eve Mins")
                night == MinutesOf(row, "Night Mins")
                intl == MinutesOf(row, "Intl Mins")
                complaint == r.call_details.churn = "TRUE"
                             /\ r.call_details.custserv_calls > 2
            IN  /\ r.duration <= 5 => r.type = "MISSED"
                /\ (5 < r.duration /\ r.duration <= 15) => r.type = "SHORT_CALL"
                /\ (r.duration > 15 /\ complaint) => r.type = "COMPLAINT"
                /\ (r.duration > 600 /\ ~complaint) => r.type = "LONG_CALL"
                /\ (15 < r.duration /\ r.duration <= 600 /\ ~complaint) =>
                      r.type = IF r.call_details.intl_mins > 10 * Milli
                               THEN "INTERNATIONAL" ELSE "ANSWERED"
                /\ (day.ok /\ eve.ok /\ night.ok /\ intl.ok) =>
                      r.duration = ((day.value + eve.value + night.value) * 60) \div Milli

(***************************************************************************)
(* Claims about repeated canonicalisation.                                 *)
(***************************************************************************)
\* C30: for a text in which a pattern of the cascade matches, the function
\* applied to its own result returns that result again, whatever the random
\* generator would give.
C30_IdempotentOnMatches ==
    (pc = "phone_done" /\ text # "" /\ FirstPhonePattern(Strip(text)) # 0) =>
        \A rnd \in SynthPhones : extract_phone_number(number[1], rnd) = number[1]

\* C30 witness: " 555.123.4567 " was canonicalised to "+15551234567", in
\* which the first pattern matches and which is returned unchanged.
C30_Witness ==
    /\ pc = "phone_done"
    /\ text = " 555.123.4567 "
    /\ number = Some("+15551234567")
    /\ FirstPhonePattern("+15551234567") = 1
    /\ extract_phone_number("+15551234567", "+12001000") = "+15551234567"

====
